---- MODULE Spec2Model ----
(***************************************************************************)
(* A model of oximod: the Model derive macro (validation, index            *)
(* provisioning, CRUD translation onto a document store) and the set-once  *)
(* global store client.                                                    *)
(*                                                                         *)
(* Strings are sequences of characters; a character is a one-element       *)
(* token, and the token "U+00E9" stands for a character whose UTF-8        *)
(* encoding is two bytes.  Option<T> is a sequence of length at most one:  *)
(* None is <<>>, Some(x) is <<x>>.  Result<T, E> is a record with an ok    *)
(* flag.                                                                   *)
(***************************************************************************)
EXTENDS Integers, Sequences, FiniteSets, TLC

VARIABLES
    CLIENT,       \* the process-wide OnceLock<Arc<Client>>: None or Some(handle)
    collection,   \* the documents of the model's collection, in store order
    indexes,      \* the indexes present on the collection
    oidCounter,   \* number of ObjectIds generated so far by ObjectId::new()
    result,       \* the last model operation: its name, arguments, outcome, commands issued
    pc,           \* per task: position inside set_global_client
    local,        \* per task: the client built by init_db, and the handles it has read
    rec,          \* the record under construction by the builder
    vin,          \* validation input: a schema and a record of that schema
    vout          \* validation output for vin

vars == <<CLIENT, collection, indexes, oidCounter, result, pc, local, rec, vin, vout>>

(***************************************************************************)
(* Option and Result                                                       *)
(***************************************************************************)
None == <<>>
Some(x) == <<x>>
is_some(o) == Len(o) = 1
is_none(o) == Len(o) = 0
unwrap(o) == o[1]

Ok(v) == [ok |-> TRUE, val |-> v]
Err(e) == [ok |-> FALSE, err |-> e]

(***************************************************************************)
(* Strings                                                                 *)
(***************************************************************************)
\* Number of bytes of the UTF-8 encoding of one character.
utf8_width(c) == IF c = "U+00E9" THEN 2 ELSE 1

RECURSIVE byte_len(_)
byte_len(s) == IF s = <<>> THEN 0 ELSE utf8_width(Head(s)) + byte_len(Tail(s))

\* str::len(): the length of the string in bytes.
str_len(s) == byte_len(s)

\* The number of characters of a string (s.chars().count()).
char_len(s) == Len(s)

\* str::contains(char)
contains(s, c) == \E i \in 1..Len(s) : s[i] = c

\* char::is_whitespace, for the characters the model's strings are made of.
is_whitespace(c) == c \in {" ", "\t", "\n"}

\* str::trim(): the string without its leading and trailing whitespace.
RECURSIVE trim(_)
trim(s) ==
    IF s = <<>> THEN s
    ELSE IF is_whitespace(Head(s)) THEN trim(Tail(s))
    ELSE IF is_whitespace(s[Len(s)]) THEN trim(SubSeq(s, 1, Len(s) - 1))
    ELSE s

\* is_empty() asked of the value itself, the trim forgotten.
untrimmed_is_empty(s) == s = <<>>

\* str::trim().is_empty()
trim_is_empty(s) == trim(s) = <<>>

\* A split that cuts at the first occurrence of c only (str::splitn(2, c)).
split_at_first(s, c) ==
    IF ~contains(s, c) THEN <<s>>
    ELSE LET i == CHOOSE k \in 1..Len(s) : s[k] = c /\ \A j \in 1..(k - 1) : s[j] # c
         IN <<SubSeq(s, 1, i - 1), SubSeq(s, i + 1, Len(s))>>

\* str::split(c).collect(): the pieces between the occurrences of c.
RECURSIVE split(_, _)
split(s, c) ==
    IF ~contains(s, c) THEN <<s>>
    ELSE LET i == CHOOSE k \in 1..Len(s) : s[k] = c /\ \A j \in 1..(k - 1) : s[j] # c
         IN <<SubSeq(s, 1, i - 1)>> \o split(SubSeq(s, i + 1, Len(s)), c)

(***************************************************************************)
(* Regular expressions (the regex crate, as far as the Pattern rule uses   *)
(* it).  A pattern is a sequence of atoms matched against the whole value: *)
(* a literal character, "\\d" (one decimal digit), or "(" which opens a    *)
(* group; a group that is never closed is a syntax error.                  *)
(***************************************************************************)
Digits == {"0", "1", "2", "3", "4", "5", "6", "7", "8", "9"}

\* Regex::new that accepts every pattern.
Regex_new_unchecked(pattern) == Ok(pattern)

\* Regex::new(pattern): Err on invalid syntax.
Regex_new(pattern) ==
    IF contains(pattern, "(") /\ ~contains(pattern, ")")
    THEN Err("regex parse error")
    ELSE Ok(pattern)

atom_matches(atom, c) == IF atom = "\\d" THEN c \in Digits ELSE atom = c

\* Regex::is_match(value) for an anchored pattern of atoms.
is_match(regex, value) ==
    /\ Len(regex) = Len(value)
    /\ \A i \in 1..Len(regex) : atom_matches(regex[i], value[i])

(***************************************************************************)
(* Validation engine: #[validate(...)]                                     *)
(***************************************************************************)
\* ValidateArgs::default(): no rule declared.
ValidateArgs_default ==
    [min_length |-> None, max_length |-> None, required |-> None, email |-> None,
     pattern |-> None, non_empty |-> None, positive |-> None, negative |-> None,
     non_negative |-> None, min |-> None, max |-> None]

ValidateDefinition(field_name, args) == [field_name |-> field_name, args |-> args]

ValidationError(field, text, cites) ==
    [kind |-> "ValidationError", field |-> field, text |-> text, cites |-> cites]

\* attr.parse_nested_meta(..): each key of the attribute, in the order written,
\* stored into its slot of args: `key = literal` as Some(literal), a bare key
\* as Some(true).
RECURSIVE parse_nested_meta(_, _)
parse_nested_meta(metas, args) ==
    IF metas = <<>> THEN args
    ELSE parse_nested_meta(Tail(metas),
             [args EXCEPT ![Head(metas).key] =
                 IF is_some(Head(metas).value) THEN Head(metas).value ELSE Some(TRUE)])

\* parse_validate_args(attr, field_name) for one #[validate(..)] attribute.
parse_validate_args(attr, field_name) ==
    ValidateDefinition(field_name, parse_nested_meta(attr, ValidateArgs_default))

\* Width in bits of the model's stand-in for i64 (the cast `as i64` wraps at it).
I64Bits == 6
I64Modulus == 2 ^ I64Bits

\* `x as i64` for an integer x of any integer type of at most that width.
as_i64(x) ==
    LET r == x % I64Modulus
    IN IF r >= I64Modulus \div 2 THEN r - I64Modulus ELSE r

\* A generator whose check for `positive` is the one written for `non_negative`.
generate_validate_model_tokens_positive_slip(validate_def) ==
    LET a == validate_def.args
        f == validate_def.field_name
        check(rule, present, arg) ==
            IF present THEN <<[rule |-> rule, field |-> f, arg |-> arg]>> ELSE <<>>
    IN check("min_length", is_some(a.min_length), a.min_length)
       \o check("max_length", is_some(a.max_length), a.max_length)
       \o check("required", a.required = Some(TRUE), None)
       \o check("email", a.email = Some(TRUE), None)
       \o check("pattern", is_some(a.pattern), a.pattern)
       \o check("non_empty", a.non_empty = Some(TRUE), None)
       \o check("non_negative", a.positive = Some(TRUE), None)
       \o check("negative", a.negative = Some(TRUE), None)
       \o check("non_negative", a.non_negative = Some(TRUE), None)
       \o check("min", is_some(a.min), a.min)
       \o check("max", is_some(a.max), a.max)

\* The checks generated for one #[validate(...)] attribute, in generation order.
\* generate_validate_model_tokens with the max check pushed before the min check.
generate_validate_model_tokens_max_first(validate_def) ==
    LET a == validate_def.args
        f == validate_def.field_name
        check(rule, present, arg) ==
            IF present THEN <<[rule |-> rule, field |-> f, arg |-> arg]>> ELSE <<>>
    IN check("min_length", is_some(a.min_length), a.min_length)
       \o check("max_length", is_some(a.max_length), a.max_length)
       \o check("required", a.required = Some(TRUE), None)
       \o check("email", a.email = Some(TRUE), None)
       \o check("pattern", is_some(a.pattern), a.pattern)
       \o check("non_empty", a.non_empty = Some(TRUE), None)
       \o check("positive", a.positive = Some(TRUE), None)
       \o check("negative", a.negative = Some(TRUE), None)
       \o check("non_negative", a.non_negative = Some(TRUE), None)
       \o check("max", is_some(a.max), a.max)
       \o check("min", is_some(a.min), a.min)

generate_validate_model_tokens(validate_def) ==
    LET a == validate_def.args
        f == validate_def.field_name
        check(rule, present, arg) ==
            IF present THEN <<[rule |-> rule, field |-> f, arg |-> arg]>> ELSE <<>>
    IN check("min_length", is_some(a.min_length), a.min_length)
       \o check("max_length", is_some(a.max_length), a.max_length)
       \o check("required", a.required = Some(TRUE), None)
       \o check("email", a.email = Some(TRUE), None)
       \o check("pattern", is_some(a.pattern), a.pattern)
       \o check("non_empty", a.non_empty = Some(TRUE), None)
       \o check("positive", a.positive = Some(TRUE), None)
       \o check("negative", a.negative = Some(TRUE), None)
       \o check("non_negative", a.non_negative = Some(TRUE), None)
       \o check("min", is_some(a.min), a.min)
       \o check("max", is_some(a.max), a.max)

\* One generated check run on a record: Ok, or the ValidationError it returns.
run_check(self, c) ==
    LET v == self[c.field]
        f == c.field
    IN CASE c.rule = "min_length" ->
              IF str_len(v) < unwrap(c.arg)
              THEN Err(ValidationError(f, "must be at least N characters long", c.arg))
              ELSE Ok("unit")
         [] c.rule = "max_length" ->
              IF str_len(v) > unwrap(c.arg)
              THEN Err(ValidationError(f, "must be at most N characters long", c.arg))
              ELSE Ok("unit")
         [] c.rule = "required" ->
              IF is_none(v)
              THEN Err(ValidationError(f, "is required", None))
              ELSE Ok("unit")
         [] c.rule = "email" ->
              IF is_none(v) THEN Ok("unit")
              ELSE LET email == unwrap(v)
                       parts == split(email, "@")
                   IN IF ~contains(email, "@") \/ ~contains(email, ".")
                      THEN Err(ValidationError(f, "must be a valid email address", None))
                      ELSE IF \/ Len(parts) # 2
                              \/ parts[1] = <<>>
                              \/ parts[2] = <<>>
                              \/ ~contains(parts[2], ".")
                      THEN Err(ValidationError(f, "must be a valid email address", None))
                      ELSE Ok("unit")
         [] c.rule = "pattern" ->
              IF is_none(v) THEN Ok("unit")
              ELSE LET regex == Regex_new(unwrap(c.arg))
                   IN IF ~regex.ok
                      THEN Err(ValidationError(f, "Invalid regex pattern in validation", None))
                      ELSE IF ~is_match(regex.val, unwrap(v))
                      THEN Err(ValidationError(f, "does not match the required pattern", None))
                      ELSE Ok("unit")
         [] c.rule = "non_empty" ->
              IF is_some(v)
              THEN IF trim_is_empty(unwrap(v))
                   THEN Err(ValidationError(f, "must be non-empty", None))
                   ELSE Ok("unit")
              ELSE Err(ValidationError(f, "is missing but marked as non-empty", None))
         [] c.rule = "positive" ->
              IF v <= 0 THEN Err(ValidationError(f, "must be positive", None))
              ELSE Ok("unit")
         [] c.rule = "negative" ->
              IF v >= 0 THEN Err(ValidationError(f, "must be negative", None))
              ELSE Ok("unit")
         [] c.rule = "non_negative" ->
              IF v < 0 THEN Err(ValidationError(f, "must be non-negative", None))
              ELSE Ok("unit")
         [] c.rule = "min" ->
              IF as_i64(v) < unwrap(c.arg)
              THEN Err(ValidationError(f, "must be at least N", c.arg))
              ELSE Ok("unit")
         [] c.rule = "max" ->
              IF as_i64(v) > unwrap(c.arg)
              THEN Err(ValidationError(f, "must be at most N", c.arg))
              ELSE Ok("unit")

\* derive_model: the checks of all #[validate] attributes, fields in declaration order.
RECURSIVE validations(_)
validations(validate_definitions) ==
    IF validate_definitions = <<>> THEN <<>>
    ELSE generate_validate_model_tokens(Head(validate_definitions))
         \o validations(Tail(validate_definitions))

\* Checks that are all run, the last failure being the one returned.
RECURSIVE run_checks_keep_last(_, _)
run_checks_keep_last(self, checks) ==
    IF checks = <<>> THEN Ok("unit")
    ELSE LET r == run_check(self, Head(checks))
             rest == run_checks_keep_last(self, Tail(checks))
         IN IF ~rest.ok THEN rest ELSE r

\* The checks in the body of validate, each ending in `return Err(..)` when it fails.
RECURSIVE run_checks(_, _)
run_checks(self, checks) ==
    IF checks = <<>> THEN Ok("unit")
    ELSE LET r == run_check(self, Head(checks))
         IN IF ~r.ok THEN r ELSE run_checks(self, Tail(checks))

\* The generated fn validate(&self): the first failing check's error, else Ok(()).
validate(schema, self) == run_checks(self, validations(schema.validate_definitions))

(***************************************************************************)
(* BSON documents.  A value is tagged with its BSON type; a document is a  *)
(* function from keys to values.  doc!{} is the empty function.            *)
(***************************************************************************)
Bson_Null == [t |-> "Null"]
Bson_String(s) == [t |-> "String", v |-> s]
Bson_ObjectId(id) == [t |-> "ObjectId", v |-> id]
\* The payload is spelled as a token so that values of all types compare.
Bson_Boolean(b) == [t |-> "Boolean", v |-> IF b THEN <<"true">> ELSE <<"false">>]

Bson_Int32(n) == [t |-> "Int32", v |-> n]
\* An embedded document, such as the {"$gte": 65} of a filter.
Bson_Document(d) == [t |-> "Document", v |-> d]

doc_empty == <<>>
doc_id(id) == [_id |-> Bson_ObjectId(id)]

\* Bson::as_object_id()
as_object_id(b) == IF b.t = "ObjectId" THEN Some(b.v) ELSE None

\* serde: Option<String> / Option<unit enum> to BSON and back.
ser_opt_string(o) == IF is_some(o) THEN Bson_String(unwrap(o)) ELSE Bson_Null
de_opt_string(doc, k) ==
    IF k \notin DOMAIN doc \/ doc[k].t = "Null" THEN Ok(None)
    ELSE IF doc[k].t = "String" THEN Ok(Some(doc[k].v))
    ELSE Err("invalid type")
de_string(doc, k) ==
    IF k \in DOMAIN doc /\ doc[k].t = "String" THEN Ok(doc[k].v) ELSE Err("invalid type")
de_opt_object_id(doc, k) ==
    IF k \notin DOMAIN doc \/ doc[k].t = "Null" THEN Ok(None)
    ELSE IF doc[k].t = "ObjectId" THEN Ok(Some(doc[k].v))
    ELSE Err("invalid type")

(***************************************************************************)
(* The record type of the model:                                           *)
(*   struct User {                                                         *)
(*     #[serde(skip_serializing_if = "Option::is_none")]                   *)
(*     _id: Option<ObjectId>,                                              *)
(*     #[validate(min_length = 5, max_length = 10)] #[index(sparse, order = "-1")] *)
(*     name: String,                                                       *)
(*     #[validate(required, email)] email: Option<String>,                 *)
(*     #[validate(required)] role: Option<Role>,                           *)
(*   }                                                                     *)
(***************************************************************************)
IndexArgs_default ==
    [unique |-> None, sparse |-> None, name |-> None, background |-> None,
     order |-> None, expire_after_secs |-> None]

IndexDefinition(field_name, args) == [field_name |-> field_name, args |-> args]

User ==
    [validate_definitions |->
        << ValidateDefinition("name",
               [ValidateArgs_default EXCEPT !.min_length = Some(5), !.max_length = Some(10)]),
           ValidateDefinition("email",
               [ValidateArgs_default EXCEPT !.required = Some(TRUE), !.email = Some(TRUE)]),
           ValidateDefinition("role",
               [ValidateArgs_default EXCEPT !.required = Some(TRUE)]) >>,
     index_definitions |->
        << IndexDefinition("name",
               [IndexArgs_default EXCEPT !.sparse = Some(TRUE), !.order = Some(-1)]) >>]

\* The same record type declared without its #[index(..)] attribute.
UserNoIndex == [User EXCEPT !.index_definitions = <<>>]

\* to_document that skips _id whether or not it is set.
to_document_skip_id(self) ==
    Ok([name |-> Bson_String(self.name),
        email |-> ser_opt_string(self.email),
        role |-> ser_opt_string(self.role)])

\* bson::to_document(&self) for User.
to_document(self) ==
    LET body == [name |-> Bson_String(self.name),
                 email |-> ser_opt_string(self.email),
                 role |-> ser_opt_string(self.role)]
    IN IF is_none(self._id) THEN Ok(body)
       ELSE Ok([_id |-> Bson_ObjectId(unwrap(self._id))] @@ body)

\* from_document that never reads role.
from_document_skip_role(doc) ==
    LET id == de_opt_object_id(doc, "_id")
        name == de_string(doc, "name")
        email == de_opt_string(doc, "email")
    IN IF id.ok /\ name.ok /\ email.ok
       THEN Ok([_id |-> id.val, name |-> name.val, email |-> email.val, role |-> None])
       ELSE Err("invalid type")

\* bson::from_document(doc) for User.
from_document(doc) ==
    LET id == de_opt_object_id(doc, "_id")
        name == de_string(doc, "name")
        email == de_opt_string(doc, "email")
        role == de_opt_string(doc, "role")
    IN IF id.ok /\ name.ok /\ email.ok /\ role.ok
       THEN Ok([_id |-> id.val, name |-> name.val, email |-> email.val, role |-> role.val])
       ELSE Err("invalid type")

(***************************************************************************)
(* The generated fluent setters: pub fn f(mut self, val) -> Self.          *)
(***************************************************************************)
\* An identifier setter that keeps an identifier already assigned.
id_setter_once(self, id) ==
    IF is_some(self._id) THEN self ELSE [self EXCEPT !._id = Some(id)]

\* pub fn id(mut self, id: ObjectId) -> Self { self._id = Some(id); self }
id_setter(self, id) == [self EXCEPT !._id = Some(id)]

\* The setter of a field whose type is not Option<_>: self.f = val
field_setter(self, ident, val) == [self EXCEPT ![ident] = val]

\* An Option<Inner> setter that stores the value as it came.
option_field_setter_unwrapped(self, ident, val) == [self EXCEPT ![ident] = val]

\* The setter of a field of type Option<Inner>: self.f = Some(val.into())
option_field_setter(self, ident, val) == [self EXCEPT ![ident] = Some(val)]

(***************************************************************************)
(* The document store (MongoDB), as seen through Collection<Document>.     *)
(* db is [collection, indexes, oidCounter]; every command returns          *)
(* [ret, db].  A command given fault = TRUE fails in the driver and        *)
(* changes nothing.                                                        *)
(***************************************************************************)
Reply(ret, db) == [ret |-> ret, db |-> db]

\* The characters of the strings in code point order, which is the order of
\* their UTF-8 bytes.
CodePoints ==
    << "\t", "\n", " ", "!", "\"", "#", "$", "%", "&", "'", "(", ")", "*", "+", ",",
       "-", ".", "/", "0", "1", "2", "3", "4", "5", "6", "7", "8", "9", ":", ";",
       "<", "=", ">", "?", "@", "A", "B", "C", "D", "E", "F", "G", "H", "I", "J",
       "K", "L", "M", "N", "O", "P", "Q", "R", "S", "T", "U", "V", "W", "X", "Y",
       "Z", "[", "\\", "]", "^", "_", "a", "b", "c", "d", "e", "f", "g", "h",
       "i", "j", "k", "l", "m", "n", "o", "p", "q", "r", "s", "t", "u", "v", "w",
       "x", "y", "z", "{", "|", "}", "~", "U+00E9" >>

\* The store's binary comparison of two strings: -1, 0 or 1.
RECURSIVE str_cmp(_, _)
str_cmp(a, b) ==
    LET code(c) == CHOOSE i \in 1..Len(CodePoints) : CodePoints[i] = c
    IN IF a = <<>> /\ b = <<>> THEN 0
       ELSE IF a = <<>> THEN -1
       ELSE IF b = <<>> THEN 1
       ELSE IF Head(a) = Head(b) THEN str_cmp(Tail(a), Tail(b))
       ELSE IF code(Head(a)) < code(Head(b)) THEN -1 ELSE 1

\* The store's order of two values, -1, 0 or 1: values of different types
\* are ordered by type (null, numbers, strings, documents, ObjectId,
\* boolean), values of one type by their content.  Two embedded documents
\* are compared for equality only.
bson_cmp(a, b) ==
    LET rank(x) == CASE x.t = "Null" -> 1
                     [] x.t = "Int32" -> 2
                     [] x.t = "String" -> 3
                     [] x.t = "Document" -> 4
                     [] x.t = "ObjectId" -> 5
                     [] x.t = "Boolean" -> 6
    IN IF rank(a) # rank(b) THEN (IF rank(a) < rank(b) THEN -1 ELSE 1)
       ELSE CASE a.t = "Null" -> 0
              [] a.t \in {"Int32", "ObjectId"} ->
                   IF a.v < b.v THEN -1 ELSE IF a.v > b.v THEN 1 ELSE 0
              [] a.t = "String" -> str_cmp(a.v, b.v)
              [] a.t = "Boolean" ->
                   IF a.v = b.v THEN 0 ELSE IF a.v = <<"false">> THEN -1 ELSE 1
              [] a.t = "Document" /\ a.v = b.v -> 0

\* Two values are the same value of the same type.
bson_eq(a, b) == a.t = b.t /\ a = b

\* The value a query or an expression sees at a key: a missing field reads
\* as null.
field_value(document, k) == IF k \in DOMAIN document THEN document[k] ELSE Bson_Null

\* The comparison operators of a filter.
QueryOperators == {"$eq", "$ne", "$gt", "$gte", "$lt", "$lte"}

\* {op: operand} applied to a value.  The order operators hold only between
\* values of the same type.
op_holds(op, value, operand) ==
    LET bracket == value.t = operand.t
                   \/ {value.t, operand.t} \subseteq {"Int32"}
    IN CASE op = "$eq" -> bson_eq(value, operand)
         [] op = "$ne" -> ~bson_eq(value, operand)
         [] op = "$gt" -> bracket /\ bson_cmp(value, operand) > 0
         [] op = "$gte" -> bracket /\ bson_cmp(value, operand) >= 0
         [] op = "$lt" -> bracket /\ bson_cmp(value, operand) < 0
         [] op = "$lte" -> bracket /\ bson_cmp(value, operand) <= 0

\* A document satisfies a filter when every key of the filter does: a key
\* whose value is a document of comparison operators by each operator, any
\* other key by equality.
matches(document, filter) ==
    \A k \in DOMAIN filter :
        LET value == field_value(document, k)
            cond == filter[k]
        IN IF cond.t = "Document" /\ DOMAIN cond.v # {}
              /\ DOMAIN cond.v \subseteq QueryOperators
           THEN \A op \in DOMAIN cond.v : op_holds(op, value, cond.v[op])
           ELSE bson_eq(value, cond)

matching(coll, filter) == {i \in 1..Len(coll) : matches(coll[i], filter)}

first_match(coll, filter) == CHOOSE i \in matching(coll, filter) : \A j \in matching(coll, filter) : i <= j

\* The subsequence of coll at the positions in keep, in order.
RECURSIVE select(_, _, _)
select(coll, keep, i) ==
    IF i > Len(coll) THEN <<>>
    ELSE (IF i \in keep THEN <<coll[i]>> ELSE <<>>) \o select(coll, keep, i + 1)

\* {"$set": fields} applied to a document.
apply_update(document, update) ==
    [k \in DOMAIN document \cup DOMAIN update["$set"] |->
        IF k \in DOMAIN update["$set"] THEN update["$set"][k] ELSE document[k]]

\* `secs as u64` for an i32 secs: the value modulo 2^64.  The result is
\* written in base 10^9, most significant digit first, 2^64 being
\* 18 446744073 709551616; a negative secs wraps to 2^64 + secs.
as_u64(secs) ==
    IF secs >= 0
    THEN <<0, secs \div 1000000000, secs % 1000000000>>
    ELSE LET low == 709551616 + secs
         IN <<18, 446744073 + (low \div 1000000000), low % 1000000000>>

\* The driver's index model for one #[index(...)] attribute; expire_after is
\* Some(Duration::from_secs(secs as u64)), the Duration given by its seconds.
index_model(index_def) ==
    [keys |-> [field |-> index_def.field_name,
               order |-> IF is_some(index_def.args.order) THEN unwrap(index_def.args.order) ELSE 1],
     options |-> [unique |-> index_def.args.unique,
                  sparse |-> index_def.args.sparse,
                  background |-> index_def.args.background,
                  name |-> index_def.args.name,
                  expire_after |->
                      IF is_some(index_def.args.expire_after_secs)
                      THEN Some(as_u64(unwrap(index_def.args.expire_after_secs)))
                      ELSE None]]

index_models(index_definitions) ==
    [i \in 1..Len(index_definitions) |-> index_model(index_definitions[i])]

\* A store whose create_indexes refuses an index it already has.
store_create_indexes_strict(db, models, fault) ==
    IF fault \/ {models[i] : i \in 1..Len(models)} \cap db.indexes # {}
    THEN Reply(Err("driver error"), db)
    ELSE Reply(Ok("created"),
               [db EXCEPT !.indexes = @ \cup {models[i] : i \in 1..Len(models)}])

store_create_indexes(db, models, fault) ==
    IF fault THEN Reply(Err("driver error"), db)
    ELSE Reply(Ok("created"),
               [db EXCEPT !.indexes = @ \cup {models[i] : i \in 1..Len(models)}])

store_insert_one(db, document, fault) ==
    IF fault THEN Reply(Err("driver error"), db)
    ELSE LET generated == "_id" \notin DOMAIN document
             with_id == IF generated
                        THEN [_id |-> Bson_ObjectId(db.oidCounter + 1)] @@ document
                        ELSE document
             db1 == IF generated THEN [db EXCEPT !.oidCounter = @ + 1] ELSE db
         IN IF matching(db.collection, [_id |-> with_id["_id"]]) # {}
            THEN Reply(Err("E11000 duplicate key"), db1)
            ELSE Reply(Ok([inserted_id |-> with_id["_id"]]),
                       [db1 EXCEPT !.collection = Append(@, with_id)])

store_find(db, filter, fault) ==
    IF fault THEN Reply(Err("driver error"), db)
    ELSE Reply(Ok(select(db.collection, matching(db.collection, filter), 1)), db)

\* The key spelled by a string.
RECURSIVE key_of(_)
key_of(s) == IF s = <<>> THEN "" ELSE Head(s) \o key_of(Tail(s))

\* The orders in which n documents can be returned.
Perms(n) == {p \in [1..n -> 1..n] : \A i, j \in 1..n : p[i] = p[j] => i = j}

\* $sum over the values of a group: values that are not numbers count 0.
RECURSIVE sum_values(_)
sum_values(values) ==
    IF values = <<>> THEN 0
    ELSE (IF Head(values).t = "Int32" THEN Head(values).v ELSE 0) + sum_values(Tail(values))

\* One stage of an aggregation pipeline applied to the documents that reach
\* it: the set of sequences the stage may pass on.  $match, $count, $limit
\* and $skip have one result.  $sort (on one key) may give documents with
\* equal keys in any order, and $group (with $sum accumulators) may give
\* its groups in any order.
run_stage(docs, stage) ==
    LET name == CHOOSE k \in DOMAIN stage : DOMAIN stage = {k}
        arg == stage[name]
        n == Len(docs)
        eval(doc, expr) ==
            IF expr.t = "String" /\ expr.v # <<>> /\ Head(expr.v) = "$"
            THEN field_value(doc, key_of(Tail(expr.v)))
            ELSE expr
        key(i) == eval(docs[i], arg["_id"])
        first(i) == \A j \in 1..(i - 1) : ~bson_eq(key(j), key(i))
        members(i) == select(docs, {j \in 1..n : bson_eq(key(j), key(i))}, 1)
        accumulate(acc, group) ==
            LET operand == acc.v["$sum"]
            IN Bson_Int32(sum_values([j \in 1..Len(group) |-> eval(group[j], operand)]))
        group_doc(i) ==
            [f \in DOMAIN arg |->
                IF f = "_id" THEN key(i) ELSE accumulate(arg[f], members(i))]
        firsts == {i \in 1..n : first(i)}
        groups == [g \in 1..Cardinality(firsts) |->
                      group_doc(CHOOSE i \in firsts :
                                   Cardinality({j \in firsts : j <= i}) = g)]
        by == CHOOSE k \in DOMAIN arg : DOMAIN arg = {k}
        sorted(p) ==
            \A i, j \in 1..n :
                i < j => arg[by].v * bson_cmp(field_value(docs[p[i]], by),
                                              field_value(docs[p[j]], by)) <= 0
    IN CASE name = "$match" -> {select(docs, matching(docs, arg), 1)}
         [] name = "$count" ->
              {IF n = 0 THEN <<>> ELSE <<[k \in {key_of(arg)} |-> Bson_Int32(n)]>>}
         [] name = "$limit" -> {SubSeq(docs, 1, IF arg < n THEN arg ELSE n)}
         [] name = "$skip" -> {SubSeq(docs, arg + 1, n)}
         [] name = "$sort" -> {[i \in 1..n |-> docs[p[i]]] : p \in {q \in Perms(n) : sorted(q)}}
         [] name = "$group" ->
              {[i \in 1..Len(groups) |-> groups[p[i]]] : p \in Perms(Len(groups))}

\* The stages from position k on, applied in turn.
RECURSIVE run_pipeline(_, _, _)
run_pipeline(docs, pipeline, k) ==
    IF k > Len(pipeline) THEN {docs}
    ELSE UNION {run_pipeline(out, pipeline, k + 1) : out \in run_stage(docs, pipeline[k])}

\* collection.aggregate(pipeline): the replies the store may give, one for
\* every sequence of documents the pipeline may produce.
store_aggregate(db, pipeline, fault) ==
    IF fault THEN {Reply(Err("driver error"), db)}
    ELSE {Reply(Ok(docs), db) : docs \in run_pipeline(db.collection, pipeline, 1)}

store_find_one(db, filter, fault) ==
    IF fault THEN Reply(Err("driver error"), db)
    ELSE IF matching(db.collection, filter) = {} THEN Reply(Ok(None), db)
    ELSE Reply(Ok(Some(db.collection[first_match(db.collection, filter)])), db)

store_update(db, targets, update, fault) ==
    IF fault THEN Reply(Err("driver error"), db)
    ELSE LET new == [i \in 1..Len(db.collection) |->
                        IF i \in targets THEN apply_update(db.collection[i], update)
                        ELSE db.collection[i]]
             modified == {i \in targets : new[i] # db.collection[i]}
         IN Reply(Ok([matched_count |-> Cardinality(targets),
                      modified_count |-> Cardinality(modified)]),
                  [db EXCEPT !.collection = new])

store_update_many(db, filter, update, fault) ==
    store_update(db, matching(db.collection, filter), update, fault)

store_update_one(db, filter, update, fault) ==
    store_update(db,
                 IF matching(db.collection, filter) = {} THEN {}
                 ELSE {first_match(db.collection, filter)},
                 update, fault)

store_delete(db, targets, fault) ==
    IF fault THEN Reply(Err("driver error"), db)
    ELSE Reply(Ok([deleted_count |-> Cardinality(targets)]),
               [db EXCEPT !.collection =
                    select(@, (1..Len(@)) \ targets, 1)])

store_delete_many(db, filter, fault) ==
    store_delete(db, matching(db.collection, filter), fault)

store_delete_one(db, filter, fault) ==
    store_delete(db,
                 IF matching(db.collection, filter) = {} THEN {}
                 ELSE {first_match(db.collection, filter)},
                 fault)

store_count_documents(db, filter, fault) ==
    IF fault THEN Reply(Err("driver error"), db)
    ELSE Reply(Ok(Cardinality(matching(db.collection, filter))), db)

(***************************************************************************)
(* The global client: static CLIENT: OnceLock<Arc<Client>>                 *)
(***************************************************************************)
OximodError(kind) == [kind |-> kind]

\* init_db(mongo_uri): a new client, or ConnectionError for a URI the driver rejects.
init_db(uri_ok, handle) ==
    IF uri_ok THEN Ok(handle) ELSE Err(OximodError("ConnectionError"))

\* A cell whose set stores the value whether or not one is already there.
OnceLock_set_replacing(cell, value) ==
    [cell |-> Some(value), ret |-> Ok("unit")]

\* OnceLock::set: stores the value if the cell is empty, else gives it back.
OnceLock_set(cell, value) ==
    IF is_none(cell) THEN [cell |-> Some(value), ret |-> Ok("unit")]
    ELSE [cell |-> cell, ret |-> Err(value)]

\* The second half of set_global_client: CLIENT.set(client.into()).map_err(..).
set_client(cell, client) ==
    LET r == OnceLock_set(cell, client)
    IN [cell |-> r.cell,
        ret |-> IF r.ret.ok THEN Ok("unit") ELSE Err(OximodError("GlobalClientInitError"))]

\* get_global_client that hands out a handle although none was set.
get_global_client_unchecked(cell) ==
    IF is_some(cell) THEN Ok(unwrap(cell)) ELSE Ok("client")

get_global_client(cell) ==
    IF is_some(cell) THEN Ok(unwrap(cell)) ELSE Err(OximodError("GlobalClientMissing"))

(***************************************************************************)
(* The generated impl of Model.  Every operation returns                   *)
(* [ret, db, log]: its result, the store after it, and the store commands  *)
(* it issued, in order.                                                    *)
(***************************************************************************)
Out(ret, db, log) == [ret |-> ret, db |-> db, log |-> log]

get_collection(cell) ==
    LET client == get_global_client(cell)
    IN IF client.ok THEN Ok([client |-> client.val]) ELSE client

\* _create_indexes that asks the store only for indexes the collection lacks.
_create_indexes_if_missing(schema, db, fault) ==
    LET models == index_models(schema.index_definitions)
    IN IF {models[i] : i \in 1..Len(models)} \ db.indexes # {}
       THEN LET r == store_create_indexes(db, models, fault)
            IN IF r.ret.ok THEN Out(Ok("unit"), r.db, <<"create_indexes">>)
               ELSE Out(Err(OximodError("IndexError")), r.db, <<"create_indexes">>)
       ELSE Out(Ok("unit"), db, <<>>)

\* _create_indexes that takes indexes found on the collection for a failure.
_create_indexes_first_only(schema, db, fault) ==
    LET models == index_models(schema.index_definitions)
    IN IF models # <<>>
       THEN LET r == store_create_indexes(db, models, fault \/ db.indexes # {})
            IN IF r.ret.ok THEN Out(Ok("unit"), r.db, <<"create_indexes">>)
               ELSE Out(Err(OximodError("IndexError")), r.db, <<"create_indexes">>)
       ELSE Out(Ok("unit"), db, <<>>)

_create_indexes(schema, db, fault) ==
    LET models == index_models(schema.index_definitions)
    IN IF models # <<>>
       THEN LET r == store_create_indexes(db, models, fault)
            IN IF r.ret.ok THEN Out(Ok("unit"), r.db, <<"create_indexes">>)
               ELSE Out(Err(OximodError("IndexError")), r.db, <<"create_indexes">>)
       ELSE Out(Ok("unit"), db, <<>>)

\* save_outcome without its first line, self.validate()?.
save_outcome_unvalidated(schema, self, cell, db, fault) ==
    LET coll == get_collection(cell)
        idx == _create_indexes(schema, db, fault = "create_indexes")
        document == to_document(self)
        ins == store_insert_one(idx.db, document.val, fault = "insert_one")
        log == idx.log \o <<"insert_one">>
        id == as_object_id(ins.ret.val.inserted_id)
    IN IF ~coll.ok THEN Out(coll, db, <<>>)
       ELSE IF ~idx.ret.ok THEN idx
       ELSE IF ~ins.ret.ok THEN Out(Err(OximodError("ConnectionError")), ins.db, log)
       ELSE Out(Ok(unwrap(id)), ins.db, log)

\* save_outcome with the validation moved after the insert.
save_outcome_validates_last(schema, self, cell, db, fault) ==
    LET o == save_outcome_unvalidated(schema, self, cell, db, fault)
        valid == validate(schema, self)
    IN IF o.ret.ok /\ ~valid.ok THEN Out(valid, o.db, o.log) ELSE o

\* save_outcome that goes on to the insert when _create_indexes has failed.
save_outcome_ignoring_index_error(schema, self, cell, db, fault) ==
    LET valid == validate(schema, self)
        coll == get_collection(cell)
        idx == _create_indexes(schema, db, fault = "create_indexes")
        document == to_document(self)
        ins == store_insert_one(idx.db, document.val, fault = "insert_one")
        log == idx.log \o <<"insert_one">>
        id == as_object_id(ins.ret.val.inserted_id)
    IN IF ~valid.ok THEN Out(valid, db, <<>>)
       ELSE IF ~coll.ok THEN Out(coll, db, <<>>)
       ELSE IF ~ins.ret.ok THEN Out(Err(OximodError("ConnectionError")), ins.db, log)
       ELSE Out(Ok(unwrap(id)), ins.db, log)

\* The body of save as generated for any record type: valid is the result of
\* self.validate() and document that of bson::to_document(&self), both of
\* which depend on the type the derive is applied to.
save_document(schema, valid, document, cell, db, fault) ==
    LET coll == get_collection(cell)
        idx == _create_indexes(schema, db, fault = "create_indexes")
        ins == store_insert_one(idx.db, document.val, fault = "insert_one")
        log == idx.log \o <<"insert_one">>
        id == as_object_id(ins.ret.val.inserted_id)
    IN IF ~valid.ok THEN Out(valid, db, <<>>)
       ELSE IF ~coll.ok THEN Out(coll, db, <<>>)
       ELSE IF ~idx.ret.ok THEN idx
       ELSE IF ~document.ok
       THEN Out(Err(OximodError("SerializationError")), idx.db, idx.log)
       ELSE IF ~ins.ret.ok THEN Out(Err(OximodError("ConnectionError")), ins.db, log)
       ELSE IF is_some(id) THEN Out(Ok(unwrap(id)), ins.db, log)
       ELSE Out(Err(OximodError("SerializationError")), ins.db, log)

\* The body of save for User: validate, resolve the collection, ensure the
\* indexes, serialize, insert, read the inserted identifier back.
save_outcome(schema, self, cell, db, fault) ==
    save_document(schema, validate(schema, self), to_document(self), cell, db, fault)

\* A save that writes the returned identifier into the record.
save_assigning_id(schema, self, cell, db, fault) ==
    LET out == save_outcome(schema, self, cell, db, fault)
    IN [ret |-> out.ret, db |-> out.db, log |-> out.log,
        self |-> IF out.ret.ok THEN [self EXCEPT !._id = Some(out.ret.val)] ELSE self]

\* async fn save(&self): the record is borrowed, so the caller's record is as before.
save(schema, self, cell, db, fault) ==
    LET out == save_outcome(schema, self, cell, db, fault)
    IN [ret |-> out.ret, db |-> out.db, log |-> out.log, self |-> self]

\* The shape shared by update, update_one, delete, delete_one, count, clear:
\* resolve the collection, issue one command, map a driver error to kind.
one_command(cell, db, reply, name, kind) ==
    LET coll == get_collection(cell)
    IN IF ~coll.ok THEN Out(coll, db, <<>>)
       ELSE IF ~reply.ret.ok THEN Out(Err(OximodError(kind)), reply.db, <<name>>)
       ELSE Out(reply.ret, reply.db, <<name>>)

\* update that validates the documents it wrote and rejects the command when
\* one of them breaks a rule.
update_validating(filter, upd, cell, db, fault) ==
    LET o == one_command(cell, db, store_update_many(db, filter, upd, fault),
                         "update_many", "ConnectionError")
        broken == {i \in 1..Len(o.db.collection) :
                      \/ ~from_document(o.db.collection[i]).ok
                      \/ ~validate(User, from_document(o.db.collection[i]).val).ok}
    IN IF o.ret.ok /\ broken # {}
       THEN Out(Err(ValidationError("name", "breaks a rule", <<>>)), db, <<>>)
       ELSE o

update(filter, upd, cell, db, fault) ==
    one_command(cell, db, store_update_many(db, filter, upd, fault),
                "update_many", "ConnectionError")

\* update_one issuing the many-document command.
update_one_many(filter, upd, cell, db, fault) ==
    one_command(cell, db, store_update_many(db, filter, upd, fault),
                "update_one", "ConnectionError")

update_one(filter, upd, cell, db, fault) ==
    one_command(cell, db, store_update_one(db, filter, upd, fault),
                "update_one", "ConnectionError")

delete(filter, cell, db, fault) ==
    one_command(cell, db, store_delete_many(db, filter, fault),
                "delete_many", "ConnectionError")

delete_one(filter, cell, db, fault) ==
    one_command(cell, db, store_delete_one(db, filter, fault),
                "delete_one", "ConnectionError")

RECURSIVE parse_all(_)
parse_all(docs) ==
    IF docs = <<>> THEN Ok(<<>>)
    ELSE LET parsed == from_document(Head(docs))
             rest == parse_all(Tail(docs))
         IN IF ~parsed.ok THEN Err(OximodError("SerializationError"))
            ELSE IF ~rest.ok THEN rest
            ELSE Ok(<<parsed.val>> \o rest.val)

\* find that collects the cursor's documents last to first.
find_latest_first(filter, cell, db, fault) ==
    LET coll == get_collection(cell)
        cursor == store_find(db, filter, fault)
        docs == cursor.ret.val
    IN IF ~coll.ok THEN Out(coll, db, <<>>)
       ELSE IF ~cursor.ret.ok THEN Out(Err(OximodError("ConnectionError")), db, <<"find">>)
       ELSE Out(parse_all([i \in 1..Len(docs) |-> docs[Len(docs) + 1 - i]]), db, <<"find">>)

find(filter, cell, db, fault) ==
    LET coll == get_collection(cell)
        cursor == store_find(db, filter, fault)
    IN IF ~coll.ok THEN Out(coll, db, <<>>)
       ELSE IF ~cursor.ret.ok THEN Out(Err(OximodError("ConnectionError")), db, <<"find">>)
       ELSE Out(parse_all(cursor.ret.val), db, <<"find">>)

find_one(filter, cell, db, fault) ==
    LET coll == get_collection(cell)
        found == store_find_one(db, filter, fault)
        parsed == from_document(unwrap(found.ret.val))
    IN IF ~coll.ok THEN Out(coll, db, <<>>)
       ELSE IF ~found.ret.ok THEN Out(Err(OximodError("ConnectionError")), db, <<"find_one">>)
       ELSE IF is_none(found.ret.val) THEN Out(Ok(None), db, <<"find_one">>)
       ELSE IF ~parsed.ok THEN Out(Err(OximodError("SerializationError")), db, <<"find_one">>)
       ELSE Out(Ok(Some(parsed.val)), db, <<"find_one">>)

\* Printable::attach_printables: prints the backtrace and the suggestion to
\* stderr and hands the error back.
attach_printables(self, suggest_msg) == self

\* result.map_err(|e| attach_printables!(e, msg)) on the outcome of an operation.
map_err_attach(o, suggest_msg) ==
    IF o.ret.ok THEN o
    ELSE Out(Err(attach_printables(o.ret.err, suggest_msg)), o.db, o.log)

find_by_id(id, cell, db, fault) ==
    map_err_attach(find_one(doc_id(id), cell, db, fault),
                   "Failed to find document by _id.")

\* update_by_id that reports an identifier nothing carries as an error.
update_by_id_must_exist(id, upd, cell, db, fault) ==
    LET o == update_one(doc_id(id), upd, cell, db, fault)
    IN IF o.ret.ok /\ o.ret.val.matched_count = 0
       THEN Out(Err(OximodError("NotFound")), o.db, o.log)
       ELSE o

update_by_id(id, upd, cell, db, fault) ==
    map_err_attach(update_one(doc_id(id), upd, cell, db, fault),
                   "Failed to update document by _id.")

\* delete_by_id that drops the identifier from the filter it builds.
delete_by_id_any(id, cell, db, fault) == delete_one(doc_empty, cell, db, fault)

delete_by_id(id, cell, db, fault) ==
    map_err_attach(delete_one(doc_id(id), cell, db, fault),
                   "Failed to delete document by _id.")

count(filter, cell, db, fault) ==
    one_command(cell, db, store_count_documents(db, filter, fault),
                "count_documents", "ConnectionError")

exists(filter, cell, db, fault) ==
    LET r == map_err_attach(find_one(filter, cell, db, fault),
                            "Failed to check document existence.")
    IN IF r.ret.ok THEN Out(Ok(is_some(r.ret.val)), r.db, r.log) ELSE r

\* clear issuing the single-document delete.
clear_first(cell, db, fault) ==
    one_command(cell, db, store_delete_one(db, doc_empty, fault),
                "delete_many", "ConnectionError")

clear(cell, db, fault) ==
    one_command(cell, db, store_delete_many(db, doc_empty, fault),
                "delete_many", "ConnectionError")

\* aggregate passes the pipeline to the store unchanged and returns its
\* cursor: the outcomes the call may have, one for every reply of the store.
aggregate(pipeline, cell, db, fault) ==
    {one_command(cell, db, reply, "aggregate", "AggregationError") :
        reply \in store_aggregate(db, pipeline, fault)}

(***************************************************************************)
(* Bounds and inputs                                                       *)
(***************************************************************************)
MaxDocs == 2        \* save is tried only while the collection holds fewer documents
MaxOid == 2         \* ObjectIds are 1..MaxOid, generated in this order

Str_abc == <<"a", "b", "c">>
Str_Valid == <<"V", "a", "l", "i", "d">>
Str_ValidName == <<"V", "a", "l", "i", "d", "N", "a", "m", "e">>
Str_email == <<"x", "@", "y", ".", "c", "o", "m">>
Str_Admin == <<"A", "d", "m", "i", "n">>

UserRecord(id, name, email, role) ==
    [_id |-> id, name |-> name, email |-> email, role |-> role]

\* The field values of the records handed to save (the identifier is chosen apart).
Payloads ==
    { UserRecord(None, Str_Valid, Some(Str_email), Some(Str_Admin)),
      UserRecord(None, Str_ValidName, Some(Str_email), Some(Str_Admin)),
      UserRecord(None, Str_abc, Some(Str_email), Some(Str_Admin)),
      UserRecord(None, Str_Valid, Some(Str_email), None) }

(***************************************************************************)
(* A record type that keeps its own identifier:                            *)
(*   #[derive(Model, Serialize, Deserialize)] #[db("db")]                  *)
(*   #[collection("items")]                                                *)
(*   struct Item { _id: String, #[validate(min_length = 1)] name: String } *)
(* Its _id is serialized as a string, so the store is given the            *)
(* identifier and returns it as inserted_id.                               *)
(***************************************************************************)
Item ==
    [validate_definitions |->
        << ValidateDefinition("name",
               [ValidateArgs_default EXCEPT !.min_length = Some(1)]) >>,
     index_definitions |-> <<>>]

\* bson::to_document(&self) for Item.
to_document_Item(self) ==
    Ok([_id |-> Bson_String(self._id), name |-> Bson_String(self.name)])

Items ==
    { [_id |-> id, name |-> name] :
        id \in {<<"k">>, <<"m">>, <<"n">>}, name \in {<<>>, <<"a">>, <<"b">>} }

Filters ==
    { doc_empty, [name |-> Bson_String(Str_Valid)], [name |-> Bson_String(Str_abc)] }

Updates ==
    { [x \in {"$set"} |-> [name |-> Bson_String(Str_abc)]],
      [x \in {"$set"} |-> [name |-> Bson_String(Str_ValidName)]],
      [x \in {"$set"} |-> [name |-> Bson_Boolean(FALSE)]] }

\* [{$match: {}}], [{$match: {name: {$gte: "Valid"}}}, {$count: "n"}] and
\* [{$group: {_id: "$name", count: {$sum: 1}}}, {$sort: {count: -1}}].
Pipelines ==
    { <<[x \in {"$match"} |-> doc_empty]>>,
      <<[x \in {"$match"} |->
            [name |-> Bson_Document([y \in {"$gte"} |-> Bson_String(Str_Valid)])]],
        [x \in {"$count"} |-> <<"n">>]>>,
      <<[x \in {"$group"} |->
            [_id |-> Bson_String(<<"$", "n", "a", "m", "e">>),
             count |-> Bson_Document([y \in {"$sum"} |-> Bson_Int32(1)])]],
        [x \in {"$sort"} |-> [count |-> Bson_Int32(-1)]]>> }

Oids == 1..MaxOid

SaveFaults == {"none", "create_indexes", "insert_one"}

(***************************************************************************)
(* The state machine of one process using the model.                       *)
(***************************************************************************)
DB == [collection |-> collection, indexes |-> indexes, oidCounter |-> oidCounter]

NoResult ==
    [op |-> "none", args |-> <<>>, ret |-> Ok("unit"), log |-> <<>>,
     before |-> [collection |-> <<>>, indexes |-> {}]]

Commit(op, args, o) ==
    /\ collection' = o.db.collection
    /\ indexes' = o.db.indexes
    /\ oidCounter' = o.db.oidCounter
    /\ result' = [op |-> op, args |-> args, ret |-> o.ret, log |-> o.log,
                  before |-> [collection |-> collection, indexes |-> indexes]]

Init ==
    /\ CLIENT = None
    /\ collection = <<>>
    /\ indexes = {}
    /\ oidCounter = 0
    /\ result = NoResult
    /\ pc = <<>>
    /\ local = <<>>
    /\ rec = <<>>
    /\ vin = <<>>
    /\ vout = <<>>

\* set_global_client(uri).await, run to completion by the only task.
SetGlobalClient ==
    \E uri_ok \in BOOLEAN :
        LET client == init_db(uri_ok, "client")
            set == set_client(CLIENT, client.val)
        IN /\ CLIENT' = IF client.ok THEN set.cell ELSE CLIENT
           /\ result' = [op |-> "set_global_client", args |-> uri_ok,
                         ret |-> IF client.ok THEN set.ret ELSE client,
                         log |-> <<>>,
                         before |-> [collection |-> collection, indexes |-> indexes]]
           /\ UNCHANGED <<collection, indexes, oidCounter, pc, local, rec, vin, vout>>

\* user.save().await for a record built by the caller; its identifier is None,
\* an identifier seen before, or a new ObjectId::new().
Save ==
    /\ Len(collection) < MaxDocs
    /\ \E payload \in Payloads, id \in {0} \cup (1..(oidCounter + 1)), fault \in SaveFaults :
          LET self == [payload EXCEPT !._id = IF id = 0 THEN None ELSE Some(id)]
              db == IF id = oidCounter + 1 THEN [DB EXCEPT !.oidCounter = id] ELSE DB
              o == save(User, self, CLIENT, db, fault)
          IN /\ db.oidCounter + (IF id = 0 THEN 1 ELSE 0) <= MaxOid
             /\ Commit("save", [self |-> self, self_after |-> o.self], o)
             /\ UNCHANGED <<CLIENT, pc, local, rec, vin, vout>>

Update ==
    \E filter \in Filters, upd \in Updates, fault \in BOOLEAN :
        /\ Commit("update", [filter |-> filter, update |-> upd],
                  update(filter, upd, CLIENT, DB, fault))
        /\ UNCHANGED <<CLIENT, pc, local, rec, vin, vout>>

UpdateOne ==
    \E filter \in Filters, upd \in Updates, fault \in BOOLEAN :
        /\ Commit("update_one", [filter |-> filter, update |-> upd],
                  update_one(filter, upd, CLIENT, DB, fault))
        /\ UNCHANGED <<CLIENT, pc, local, rec, vin, vout>>

UpdateById ==
    \E id \in Oids, upd \in Updates, fault \in BOOLEAN :
        /\ Commit("update_by_id", [id |-> id, update |-> upd, fault |-> fault],
                  update_by_id(id, upd, CLIENT, DB, fault))
        /\ UNCHANGED <<CLIENT, pc, local, rec, vin, vout>>

Delete ==
    \E filter \in Filters, fault \in BOOLEAN :
        /\ Commit("delete", [filter |-> filter], delete(filter, CLIENT, DB, fault))
        /\ UNCHANGED <<CLIENT, pc, local, rec, vin, vout>>

DeleteOne ==
    \E filter \in Filters, fault \in BOOLEAN :
        /\ Commit("delete_one", [filter |-> filter], delete_one(filter, CLIENT, DB, fault))
        /\ UNCHANGED <<CLIENT, pc, local, rec, vin, vout>>

DeleteById ==
    \E id \in Oids, fault \in BOOLEAN :
        /\ Commit("delete_by_id", [id |-> id, fault |-> fault], delete_by_id(id, CLIENT, DB, fault))
        /\ UNCHANGED <<CLIENT, pc, local, rec, vin, vout>>

Find ==
    \E filter \in Filters, fault \in BOOLEAN :
        /\ Commit("find", [filter |-> filter], find(filter, CLIENT, DB, fault))
        /\ UNCHANGED <<CLIENT, pc, local, rec, vin, vout>>

FindOne ==
    \E filter \in Filters, fault \in BOOLEAN :
        /\ Commit("find_one", [filter |-> filter], find_one(filter, CLIENT, DB, fault))
        /\ UNCHANGED <<CLIENT, pc, local, rec, vin, vout>>

FindById ==
    \E id \in Oids, fault \in BOOLEAN :
        /\ Commit("find_by_id", [id |-> id, fault |-> fault], find_by_id(id, CLIENT, DB, fault))
        /\ UNCHANGED <<CLIENT, pc, local, rec, vin, vout>>

Count ==
    \E filter \in Filters, fault \in BOOLEAN :
        /\ Commit("count", [filter |-> filter], count(filter, CLIENT, DB, fault))
        /\ UNCHANGED <<CLIENT, pc, local, rec, vin, vout>>

Exists ==
    \E filter \in Filters, fault \in BOOLEAN :
        /\ Commit("exists", [filter |-> filter, fault |-> fault], exists(filter, CLIENT, DB, fault))
        /\ UNCHANGED <<CLIENT, pc, local, rec, vin, vout>>

Clear ==
    \E fault \in BOOLEAN :
        /\ Commit("clear", [fault |-> fault], clear(CLIENT, DB, fault))
        /\ UNCHANGED <<CLIENT, pc, local, rec, vin, vout>>

Aggregate ==
    \E pipeline \in Pipelines, fault \in BOOLEAN :
        \E o \in aggregate(pipeline, CLIENT, DB, fault) :
            /\ Commit("aggregate", [pipeline |-> pipeline], o)
            /\ UNCHANGED <<CLIENT, pc, local, rec, vin, vout>>

Next ==
    \/ SetGlobalClient
    \/ Save
    \/ Update
    \/ UpdateOne
    \/ UpdateById
    \/ Delete
    \/ DeleteOne
    \/ DeleteById
    \/ Find
    \/ FindOne
    \/ FindById
    \/ Count
    \/ Exists
    \/ Clear
    \/ Aggregate

Spec == Init /\ [][Next]_vars


(***************************************************************************)
(* One record held by the caller: written as a struct literal, changed by  *)
(* the fluent setters, and saved any number of times.                      *)
(***************************************************************************)
InitBuilder ==
    /\ CLIENT = None
    /\ collection = <<>>
    /\ indexes = {}
    /\ oidCounter = 0
    /\ result = NoResult
    /\ rec \in Payloads
    /\ pc = <<>>
    /\ local = <<>>
    /\ vin = <<>>
    /\ vout = <<>>

Touch(op, args) ==
    result' = [op |-> op, args |-> args, ret |-> Ok("unit"), log |-> <<>>,
               before |-> [collection |-> collection, indexes |-> indexes]]

\* rec = rec.id(id), with id an identifier seen before or a new ObjectId::new().
BuilderId ==
    /\ oidCounter < MaxOid
    /\ \E id \in 1..(oidCounter + 1) :
          /\ rec' = id_setter(rec, id)
          /\ oidCounter' = IF id = oidCounter + 1 THEN id ELSE oidCounter
          /\ Touch("id", [id |-> id, self |-> rec])
    /\ UNCHANGED <<CLIENT, collection, indexes, pc, local, vin, vout>>

BuilderName ==
    /\ \E val \in {Str_abc, Str_Valid} :
          /\ rec' = field_setter(rec, "name", val)
          /\ Touch("name", [val |-> val, self |-> rec])
    /\ UNCHANGED <<CLIENT, collection, indexes, oidCounter, pc, local, vin, vout>>

BuilderEmail ==
    /\ \E val \in {Str_email, Str_abc} :
          /\ rec' = option_field_setter(rec, "email", val)
          /\ Touch("email", [val |-> val, self |-> rec])
    /\ UNCHANGED <<CLIENT, collection, indexes, oidCounter, pc, local, vin, vout>>

BuilderRole ==
    /\ rec' = option_field_setter(rec, "role", Str_Admin)
    /\ Touch("role", [val |-> Str_Admin, self |-> rec])
    /\ UNCHANGED <<CLIENT, collection, indexes, oidCounter, pc, local, vin, vout>>

\* rec.save().await
BuilderSave ==
    /\ Len(collection) < MaxDocs
    /\ oidCounter < MaxOid
    /\ \E fault \in SaveFaults :
          LET o == save(User, rec, CLIENT, DB, fault)
          IN /\ Commit("save", [self |-> rec, self_after |-> o.self], o)
             /\ rec' = o.self
    /\ UNCHANGED <<CLIENT, pc, local, vin, vout>>

BuilderSetGlobalClient ==
    /\ SetGlobalClient
    /\ UNCHANGED rec

NextBuilder ==
    \/ BuilderSetGlobalClient
    \/ BuilderId
    \/ BuilderName
    \/ BuilderEmail
    \/ BuilderRole
    \/ BuilderSave

SpecBuilder == InitBuilder /\ [][NextBuilder]_vars

(***************************************************************************)
(* validate() called on one record of one record type.                     *)
(***************************************************************************)
MaxStrLen == 3      \* characters in the strings given to the length rules
MaxLenBound == 3    \* largest n of min_length = n and max_length = n

Alphabet == {"a", "U+00E9"}

Strings == UNION {[1..k -> Alphabet] : k \in 0..MaxStrLen}

Str_TooLong == <<"V", "a", "l", "i", "d", "N", "a", "m", "e", "X", "Y">>
Str_nomail == <<"x", "y", ".", "c", "o", "m">>

\* struct Doc { #[validate(min_length = n, max_length = m)] name: String, .. }
LengthSchema(n, m) ==
    [validate_definitions |->
        << ValidateDefinition("name",
               [ValidateArgs_default EXCEPT !.min_length = Some(n), !.max_length = Some(m)]) >>,
     index_definitions |-> <<>>]

\* A record type with one validated field: struct Doc { #[validate(..)] value: T }
FieldSchema(args) ==
    [validate_definitions |-> << ValidateDefinition("value", args) >>,
     index_definitions |-> <<>>]

MaxEmailLen == 4    \* characters in the strings given to the email rule

EmailStrings == UNION {[1..k -> {"a", "@", "."}] : k \in 0..MaxEmailLen}

\* #[validate(email)] value: Option<String>
EmailInputs ==
    { [kind |-> "email",
       schema |-> FieldSchema([ValidateArgs_default EXCEPT !.email = Some(TRUE)]),
       self |-> [value |-> v]] :
          v \in {None} \cup {Some(str) : str \in EmailStrings} }

\* The values of the integer field types: the signed ones and, above them, the
\* unsigned values that do not fit the signed type of the same width.
IntValues == (-(I64Modulus \div 2))..(I64Modulus - 1)

\* #[validate(positive)], #[validate(negative)], #[validate(non_negative)] value: iN
SignInputs ==
    { [kind |-> "positive",
       schema |-> FieldSchema([ValidateArgs_default EXCEPT !.positive = Some(TRUE)]),
       self |-> [value |-> x]] : x \in IntValues }
    \cup
    { [kind |-> "negative",
       schema |-> FieldSchema([ValidateArgs_default EXCEPT !.negative = Some(TRUE)]),
       self |-> [value |-> x]] : x \in IntValues }
    \cup
    { [kind |-> "non_negative",
       schema |-> FieldSchema([ValidateArgs_default EXCEPT !.non_negative = Some(TRUE)]),
       self |-> [value |-> x]] : x \in IntValues }

\* #[validate(min = n)] value: T and #[validate(max = n)] value: T, T an integer type
MinMaxInputs ==
    { [kind |-> "min",
       schema |-> FieldSchema([ValidateArgs_default EXCEPT !.min = Some(n)]),
       self |-> [value |-> x]] : n \in {-1, 0, 2}, x \in IntValues }
    \cup
    { [kind |-> "max",
       schema |-> FieldSchema([ValidateArgs_default EXCEPT !.max = Some(n)]),
       self |-> [value |-> x]] : n \in {-1, 0, 2}, x \in IntValues }

BlankableStrings == UNION {[1..k -> {"a", " ", "\t"}] : k \in 0..MaxStrLen}

\* #[validate(non_empty)] value: Option<String>
NonEmptyInputs ==
    { [kind |-> "non_empty",
       schema |-> FieldSchema([ValidateArgs_default EXCEPT !.non_empty = Some(TRUE)]),
       self |-> [value |-> v]] :
          v \in {None} \cup {Some(str) : str \in BlankableStrings} }

\* #[validate(pattern = ..)] code: Option<String>, with the pattern ^S\d$ or
\* the unclosed group (S, and the values given to it.
PatternInputs ==
    { [kind |-> "pattern",
       schema |-> FieldSchema([ValidateArgs_default EXCEPT !.pattern = Some(pattern)]),
       self |-> [value |-> v]] :
          pattern \in { <<"S", "\\d">>, <<"(", "S">> },
          v \in {None} \cup {Some(str) : str \in UNION {[1..k -> {"S", "1", "a"}] : k \in 0..MaxStrLen}} }

\* #[validate(..)] attributes with two rules, written in either order.
OrderAttrs ==
    { << [key |-> "min", value |-> Some(2)], [key |-> "max", value |-> Some(0)] >>,
      << [key |-> "max", value |-> Some(0)], [key |-> "min", value |-> Some(2)] >>,
      << [key |-> "min", value |-> Some(2)], [key |-> "positive", value |-> None] >>,
      << [key |-> "positive", value |-> None], [key |-> "min", value |-> Some(2)] >> }

\* struct { #[validate(..)] a: i32, #[validate(..)] b: i32 }
OrderInputs ==
    { [kind |-> "order",
       attrs |-> [a |-> attr_a, b |-> attr_b],
       schema |-> [validate_definitions |-> << parse_validate_args(attr_a, "a"),
                                               parse_validate_args(attr_b, "b") >>,
                   index_definitions |-> <<>>],
       self |-> [a |-> x, b |-> y]] :
          attr_a \in OrderAttrs, attr_b \in OrderAttrs, x \in -1..3, y \in -1..3 }

ValidateInputs ==
    { [kind |-> "user", schema |-> User, self |-> UserRecord(None, name, email, role)] :
          name \in {Str_abc, Str_Valid, Str_TooLong},
          email \in {None, Some(Str_email), Some(Str_nomail)},
          role \in {None, Some(Str_Admin)} }
    \cup
    { [kind |-> "length", schema |-> LengthSchema(n, m),
       self |-> UserRecord(None, str, None, None)] :
          n \in 0..MaxLenBound, m \in 0..MaxLenBound, str \in Strings }
    \cup EmailInputs
    \cup SignInputs
    \cup MinMaxInputs
    \cup NonEmptyInputs
    \cup OrderInputs
    \cup PatternInputs

InitValidate ==
    /\ vin \in ValidateInputs
    /\ vout = None
    /\ CLIENT = None
    /\ collection = <<>>
    /\ indexes = {}
    /\ oidCounter = 0
    /\ result = NoResult
    /\ rec = <<>>
    /\ pc = <<>>
    /\ local = <<>>

\* vin.self.validate()
Validate ==
    /\ is_none(vout)
    /\ vout' = Some(validate(vin.schema, vin.self))
    /\ UNCHANGED <<CLIENT, collection, indexes, oidCounter, result, pc, local, rec, vin>>

NextValidate == Validate

SpecValidate == InitValidate /\ [][NextValidate]_vars

(***************************************************************************)
(* One process saving Item records, whose identifier is a string.          *)
(***************************************************************************)
\* item.save().await
SaveItem ==
    /\ Len(collection) < MaxDocs
    /\ \E self \in Items, fault \in SaveFaults :
          LET o == save_document(Item, validate(Item, self), to_document_Item(self),
                                 CLIENT, DB, fault)
          IN /\ Commit("save", [self |-> self, self_after |-> self],
                       [ret |-> o.ret, db |-> o.db, log |-> o.log])
             /\ UNCHANGED <<CLIENT, pc, local, rec, vin, vout>>

NextItem == SetGlobalClient \/ SaveItem

SpecItem == Init /\ [][NextItem]_vars

(***************************************************************************)
(* Concurrent tasks calling set_global_client and get_global_client.       *)
(* set_global_client awaits init_db and then calls CLIENT.set, so other    *)
(* tasks may run between the two; CLIENT.set and CLIENT.get are atomic.    *)
(***************************************************************************)
NumTasks == 2       \* tasks sharing the process
MaxCalls == 5       \* calls the tasks make between them

Tasks == 1..NumTasks

RECURSIVE SumOver(_, _)
SumOver(f, S) ==
    IF S = {} THEN 0
    ELSE LET x == CHOOSE y \in S : TRUE IN f[x] + SumOver(f, S \ {x})

\* The calls begun so far: finished sets and gets, and sets awaiting CLIENT.set.
Calls ==
    SumOver([t \in Tasks |-> Len(local[t].sets) + Len(local[t].gets)
                              + (IF pc[t] = "set" THEN 1 ELSE 0)], Tasks)

InitClient ==
    /\ CLIENT = None
    /\ pc = [t \in Tasks |-> "idle"]
    /\ local = [t \in Tasks |-> [client |-> None, sets |-> <<>>, gets |-> <<>>]]
    /\ collection = <<>>
    /\ indexes = {}
    /\ oidCounter = 0
    /\ result = NoResult
    /\ rec = <<>>
    /\ vin = <<>>
    /\ vout = <<>>

\* set_global_client, first half: let client = init_db(mongo_uri).await?;
TaskInitDb(t) ==
    /\ pc[t] = "idle"
    /\ Calls < MaxCalls
    /\ \E uri_ok \in BOOLEAN :
          LET client == init_db(uri_ok, [task |-> t, call |-> Len(local[t].sets) + 1])
          IN IF client.ok
             THEN /\ pc' = [pc EXCEPT ![t] = "set"]
                  /\ local' = [local EXCEPT ![t].client = Some(client.val)]
             ELSE /\ pc' = pc
                  /\ local' = [local EXCEPT ![t].sets = Append(@, client)]
    /\ UNCHANGED <<CLIENT, collection, indexes, oidCounter, result, rec, vin, vout>>

\* set_global_client, second half: CLIENT.set(client.into()).map_err(..)?; Ok(())
TaskSet(t) ==
    /\ pc[t] = "set"
    /\ LET set == set_client(CLIENT, unwrap(local[t].client))
       IN /\ CLIENT' = set.cell
          /\ local' = [local EXCEPT ![t].client = None, ![t].sets = Append(@, set.ret)]
    /\ pc' = [pc EXCEPT ![t] = "idle"]
    /\ UNCHANGED <<collection, indexes, oidCounter, result, rec, vin, vout>>

\* get_global_client(), called by a task that is not inside set_global_client.
TaskGet(t) ==
    /\ pc[t] = "idle"
    /\ Calls < MaxCalls
    /\ local' = [local EXCEPT ![t].gets = Append(@, get_global_client(CLIENT))]
    /\ UNCHANGED <<CLIENT, pc, collection, indexes, oidCounter, result, rec, vin, vout>>

NextClient ==
    \/ \E t \in Tasks : TaskInitDb(t)
    \/ \E t \in Tasks : TaskSet(t)
    \/ \E t \in Tasks : TaskGet(t)

SpecClient == InitClient /\ [][NextClient]_vars

(***************************************************************************)
(* The constructors and the fluent setters of a record type.  A record     *)
(* type is the list of its fields, each with its type and the expression   *)
(* of its #[default(..)] attribute if it has one:                          *)
(*   User   { _id, name: String, age: i32, active: bool }                  *)
(*   Record { _id, #[default("Guest")] user: String,                       *)
(*            #[default(1)] retries: i32 }                                 *)
(*   Member { _id, name: String, email: Option<String>,                    *)
(*            role: Option<Role> }                                         *)
(*   IndexUser { _id, name: String, age: Option<i32>,                      *)
(*               created_at: Option<DateTime>, active: bool }              *)
(* A field type is a syn Type: a path of segments, each an identifier with *)
(* its angle-bracketed type arguments.                                     *)
(***************************************************************************)
\* The type written as one path segment: ident, or ident<arguments>.
TypePath(ident, arguments) ==
    [kind |-> "Path", segments |-> <<[ident |-> ident, arguments |-> arguments]>>]

Str_Guest == <<"G", "u", "e", "s", "t">>

FieldDefinition(ident, ty, default_expr) ==
    [ident |-> ident, ty |-> ty, default_expr |-> default_expr]

RecordTypes == {"User", "Record", "Member", "IndexUser"}

all_fields(T) ==
    LET Plain(ident) == TypePath(ident, <<>>)
        Opt(ident) == TypePath("Option", <<Plain(ident)>>)
    IN CASE T = "User" ->
              << FieldDefinition("_id", Opt("ObjectId"), None),
                 FieldDefinition("name", Plain("String"), None),
                 FieldDefinition("age", Plain("i32"), None),
                 FieldDefinition("active", Plain("bool"), None) >>
         [] T = "Record" ->
              << FieldDefinition("_id", Opt("ObjectId"), None),
                 FieldDefinition("user", Plain("String"), Some(Str_Guest)),
                 FieldDefinition("retries", Plain("i32"), Some(1)) >>
         [] T = "Member" ->
              << FieldDefinition("_id", Opt("ObjectId"), None),
                 FieldDefinition("name", Plain("String"), None),
                 FieldDefinition("email", Opt("String"), None),
                 FieldDefinition("role", Opt("Role"), None) >>
         [] T = "IndexUser" ->
              << FieldDefinition("_id", Opt("ObjectId"), None),
                 FieldDefinition("name", Plain("String"), None),
                 FieldDefinition("age", Opt("i32"), None),
                 FieldDefinition("created_at", Opt("DateTime"), None),
                 FieldDefinition("active", Plain("bool"), None) >>

field_idents(T) == {all_fields(T)[i].ident : i \in 1..Len(all_fields(T))}

field_of(T, ident) ==
    all_fields(T)[CHOOSE i \in 1..Len(all_fields(T)) : all_fields(T)[i].ident = ident]

\* If ty is Option<Inner>, Some(Inner), otherwise None: ty must be a path of
\* exactly one segment, named Option, with exactly one type argument.
option_inner_type(ty) ==
    IF /\ ty.kind = "Path"
       /\ Len(ty.segments) = 1
       /\ ty.segments[1].ident = "Option"
       /\ Len(ty.segments[1].arguments) = 1
    THEN Some(ty.segments[1].arguments[1])
    ELSE None

\* The zero value of a field type: empty string, 0, false, absent optional.
zero_value(ty) ==
    CASE ty = TypePath("String", <<>>) -> <<>>
      [] ty = TypePath("i32", <<>>) -> 0
      [] ty = TypePath("bool", <<>>) -> FALSE
      [] OTHER -> None

\* The initializer of one field: its declared default if it has one, else the
\* zero value of its type.
field_init(field) ==
    IF is_some(field.default_expr) THEN unwrap(field.default_expr)
    ELSE zero_value(field.ty)

\* Default::default() of the record type.
default(T) == [ident \in field_idents(T) |-> field_init(field_of(T, ident))]

\* new() that fills every field with the zero value of its type.
new_zeroed(T) == [ident \in field_idents(T) |-> zero_value(field_of(T, ident).ty)]

\* new() of the record type.
new(T) == default(T)

\* The setter push_field_setters generates for a field, applied to a record.
setter(field, self, val) ==
    IF is_some(option_inner_type(field.ty))
    THEN option_field_setter(self, field.ident, val)
    ELSE field_setter(self, field.ident, val)

\* The values the callers pass to the setter of a field.
SetterValues(ident) ==
    CASE ident \in {"name", "user"} -> {Str_abc, Str_Valid}
      [] ident \in {"age", "retries"} -> {0, 5}
      [] ident = "active" -> {FALSE, TRUE}
      [] ident = "email" -> {Str_email}
      [] ident = "role" -> {Str_Admin}
      [] ident = "created_at" -> {1000}

\* A record type is chosen; nothing is built yet.  local.last keeps, for
\* every field, the last value a setter was given.
InitDefault ==
    /\ CLIENT = None
    /\ collection = <<>>
    /\ indexes = {}
    /\ oidCounter = 0
    /\ result = NoResult
    /\ rec = <<>>
    /\ pc = "declared"
    /\ \E T \in RecordTypes :
          local = [T |-> T, ctor |-> "none", last |-> [ident \in field_idents(T) |-> None]]
    /\ vin = <<>>
    /\ vout = <<>>

\* let rec = T::new();
BuildNew ==
    /\ pc = "declared"
    /\ rec' = new(local.T)
    /\ local' = [local EXCEPT !.ctor = "new"]
    /\ pc' = "built"
    /\ UNCHANGED <<CLIENT, collection, indexes, oidCounter, result, vin, vout>>

\* let rec = T::default();
BuildDefault ==
    /\ pc = "declared"
    /\ rec' = default(local.T)
    /\ local' = [local EXCEPT !.ctor = "default"]
    /\ pc' = "built"
    /\ UNCHANGED <<CLIENT, collection, indexes, oidCounter, result, vin, vout>>

\* rec = rec.field(val) for a field other than _id.
SetField ==
    /\ pc = "built"
    /\ \E ident \in field_idents(local.T) \ {"_id"} :
          \E val \in SetterValues(ident) :
             /\ rec' = setter(field_of(local.T, ident), rec, val)
             /\ local' = [local EXCEPT !.last[ident] = Some(val)]
    /\ UNCHANGED <<CLIENT, collection, indexes, oidCounter, result, pc, vin, vout>>

\* rec = rec.id(id)
SetId ==
    /\ pc = "built"
    /\ \E id \in Oids :
          /\ rec' = id_setter(rec, id)
          /\ local' = [local EXCEPT !.last["_id"] = Some(id)]
    /\ UNCHANGED <<CLIENT, collection, indexes, oidCounter, result, pc, vin, vout>>

NextDefault ==
    \/ BuildNew
    \/ BuildDefault
    \/ SetField
    \/ SetId

SpecDefault == InitDefault /\ [][NextDefault]_vars

(***************************************************************************)
(* Concurrent saves.  Each task runs save on a record of its own; the two  *)
(* awaits of save, create_indexes and insert_one, are the points where the *)
(* tasks interleave, and the store serves one command at a time.           *)
(***************************************************************************)
NumSavers == 2      \* tasks saving at the same time

Savers == 1..NumSavers

\* The store the savers start from: no document, no index, a connected
\* client; identifiers 1..NumSavers are the ones the tasks made themselves.
SaversStore ==
    [collection |-> <<>>, indexes |-> {}, oidCounter |-> NumSavers]

InitSavers ==
    /\ CLIENT = Some("client")
    /\ collection = SaversStore.collection
    /\ indexes = SaversStore.indexes
    /\ oidCounter = SaversStore.oidCounter
    /\ pc = [t \in Savers |-> "save"]
    /\ \E payloads \in [Savers -> Payloads], own_id \in [Savers -> BOOLEAN] :
          local = [t \in Savers |->
                     [self |-> [payloads[t] EXCEPT
                                   !._id = IF own_id[t] THEN Some(t) ELSE None],
                      ret |-> None,
                      log |-> <<>>]]
    /\ result = NoResult
    /\ rec = <<>>
    /\ vin = <<>>
    /\ vout = <<>>

\* save up to its first await: self.validate()?; Self::get_collection()?;
\* Self::_create_indexes(&collection).await?;
SaverCreateIndexes(t) ==
    /\ pc[t] = "save"
    /\ LET valid == validate(User, local[t].self)
           coll == get_collection(CLIENT)
           idx == _create_indexes(User, DB, FALSE)
       IN IF ~valid.ok
          THEN /\ local' = [local EXCEPT ![t].ret = Some(valid)]
               /\ pc' = [pc EXCEPT ![t] = "done"]
               /\ UNCHANGED indexes
          ELSE IF ~coll.ok
          THEN /\ local' = [local EXCEPT ![t].ret = Some(coll)]
               /\ pc' = [pc EXCEPT ![t] = "done"]
               /\ UNCHANGED indexes
          ELSE /\ indexes' = idx.db.indexes
               /\ local' = [local EXCEPT ![t].log = idx.log,
                                          ![t].ret = IF idx.ret.ok THEN None ELSE Some(idx.ret)]
               /\ pc' = [pc EXCEPT ![t] = IF idx.ret.ok THEN "insert" ELSE "done"]
    /\ UNCHANGED <<CLIENT, collection, oidCounter, result, rec, vin, vout>>

\* save from to_document to its return: the insert_one and the identifier read back.
SaverInsertOne(t) ==
    /\ pc[t] = "insert"
    /\ LET document == to_document(local[t].self)
           ins == store_insert_one(DB, document.val, FALSE)
           id == as_object_id(ins.ret.val.inserted_id)
           ret == IF ~ins.ret.ok THEN Err(OximodError("ConnectionError"))
                  ELSE IF is_some(id) THEN Ok(unwrap(id))
                  ELSE Err(OximodError("SerializationError"))
       IN /\ collection' = ins.db.collection
          /\ oidCounter' = ins.db.oidCounter
          /\ local' = [local EXCEPT ![t].ret = Some(ret),
                                     ![t].log = Append(@, "insert_one")]
    /\ pc' = [pc EXCEPT ![t] = "done"]
    /\ UNCHANGED <<CLIENT, indexes, result, rec, vin, vout>>

NextSavers ==
    \/ \E t \in Savers : SaverCreateIndexes(t)
    \/ \E t \in Savers : SaverInsertOne(t)

SpecSavers == InitSavers /\ [][NextSavers]_vars

(***************************************************************************)
(* Claims                                                                  *)
(***************************************************************************)
ModelOps ==
    {"save", "find", "find_one", "find_by_id", "update", "update_one", "update_by_id",
     "delete", "delete_one", "delete_by_id", "count", "exists", "clear", "aggregate"}

\* C1: if a declared validation rule of r fails (as the generated checks
\* evaluate it), save(r) returns a ValidationError and issues neither
\* create_indexes nor insert_one, whatever the store's state and whether or not
\* the client is set: the collection's documents and indexes are as before the call.
C1_SaveRejectsInvalid ==
    (result.op = "save" /\ ~validate(User, result.args.self).ok) =>
        /\ ~result.ret.ok
        /\ result.ret.err.kind = "ValidationError"
        /\ result.log = <<>>
        /\ collection = result.before.collection
        /\ indexes = result.before.indexes

C1_Witness ==
    /\ result.op = "save"
    /\ ~validate(User, result.args.self).ok
    /\ is_some(CLIENT)
    /\ collection # <<>>
    /\ result.ret.err.kind = "ValidationError"

\* A stored document deserializes into a record that passes validate.
DocumentValid(document) ==
    LET r == from_document(document)
    IN r.ok /\ validate(User, r.val).ok

\* C2 (as claimed): in every state reachable by save, update, update_one,
\* update_by_id, delete, delete_one, delete_by_id and clear, every document of
\* the collection satisfies all validation rules of the record type.
C2_Original ==
    \A i \in 1..Len(collection) : DocumentValid(collection[i])

\* C2 (amended): no invalid record is ever persisted by save.  A document that
\* fails the validation rules can appear in the collection only through update,
\* update_one or update_by_id, which do not validate: save inserts a document
\* only for a record that passes validate, and save, delete, delete_one,
\* delete_by_id and clear (and the read operations) never add a failing
\* document, so without update calls every document satisfies all the rules.
C2_NoInvalidRecordSaved ==
    LET Was == {result.before.collection[i] : i \in 1..Len(result.before.collection)}
        Now == {collection[i] : i \in 1..Len(collection)}
    IN /\ (\E d \in Now \ Was : ~DocumentValid(d)) =>
              result.op \in {"update", "update_one", "update_by_id"}
       /\ Len(collection) > Len(result.before.collection) =>
              /\ result.op = "save"
              /\ validate(User, result.args.self).ok
              /\ DocumentValid(collection[Len(collection)])

C2_Witness ==
    /\ Len(collection) = 2
    /\ result.op = "save"
    /\ result.ret.ok
    /\ \E i \in 1..Len(collection) : collection[i]["_id"] = Bson_ObjectId(result.ret.val)

\* C3 (as claimed): while the global client has never been set, every model
\* operation, for every argument, returns GlobalClientMissing and issues no
\* store command.
C3_Original ==
    (is_none(CLIENT) /\ result.op \in ModelOps) =>
        /\ ~result.ret.ok
        /\ result.ret.err.kind = "GlobalClientMissing"
        /\ result.log = <<>>

\* C3 (amended): while the global client has never been set, no model operation
\* issues a store command; save of a record that fails validation returns the
\* ValidationError, and every other call (save of a valid record included)
\* returns GlobalClientMissing.
C3_ClientMissing ==
    (is_none(CLIENT) /\ result.op \in ModelOps) =>
        /\ ~result.ret.ok
        /\ result.log = <<>>
        /\ collection = result.before.collection
        /\ indexes = result.before.indexes
        /\ result.ret.err.kind =
              IF result.op = "save" /\ ~validate(User, result.args.self).ok
              THEN "ValidationError"
              ELSE "GlobalClientMissing"

C3_Witness ==
    /\ is_none(CLIENT)
    /\ result.op = "save"
    /\ validate(User, result.args.self).ok
    /\ result.ret.err.kind = "GlobalClientMissing"

\* The calls of set_global_client that returned Ok, as <<task, call>>.
SetsOk == {c \in Tasks \X (1..MaxCalls) :
              c[2] <= Len(local[c[1]].sets) /\ local[c[1]].sets[c[2]].ok}

\* The calls of get_global_client that returned a handle, as <<task, call>>.
GetsOk == {c \in Tasks \X (1..MaxCalls) :
              c[2] <= Len(local[c[1]].gets) /\ local[c[1]].gets[c[2]].ok}

\* C4: the global client is set-once under every interleaving: at most one
\* set_global_client call returns Ok and every other one returns an error
\* (ConnectionError or GlobalClientInitError); every handle get_global_client has
\* returned is the handle the cell holds now, so a later get returns the same
\* handle and no failed or repeated set replaced or cleared it; within a task no
\* get fails after one has returned a handle.
C4_SetOnce ==
    /\ Cardinality(SetsOk) <= 1
    /\ SetsOk # {} => is_some(CLIENT)
    /\ \A t \in Tasks : \A i \in 1..Len(local[t].sets) :
          ~local[t].sets[i].ok =>
              local[t].sets[i].err.kind \in {"ConnectionError", "GlobalClientInitError"}
    /\ \A c \in GetsOk :
          is_some(CLIENT) /\ local[c[1]].gets[c[2]].val = unwrap(CLIENT)
    /\ \A t \in Tasks : \A i, j \in 1..Len(local[t].gets) :
          (i < j /\ local[t].gets[i].ok) => local[t].gets[j] = local[t].gets[i]

C4_Witness ==
    /\ Cardinality(SetsOk) = 1
    /\ \E t \in Tasks : \E i \in 1..Len(local[t].sets) :
          ~local[t].sets[i].ok /\ local[t].sets[i].err.kind = "GlobalClientInitError"
    /\ \E a, b \in GetsOk : a[1] # b[1]
    /\ \E t \in Tasks : \E i \in 1..Len(local[t].gets) : ~local[t].gets[i].ok

\* C5 (as claimed): for every valid record r, identifier None or Some, if save(r)
\* returns id then find_by_id(id) with no write in between returns Some(r') with
\* r' equal to r on all fields.
C5_Original ==
    (result.op = "save" /\ result.ret.ok) =>
        LET found == find_by_id(result.ret.val, CLIENT, DB, FALSE)
        IN found.ret.ok /\ found.ret.val = Some(result.args.self)

\* C5 (amended): if save(r) returns id then find_by_id(id) with no write in
\* between returns Some(r') where r' equals r on every field other than the
\* identifier and the identifier of r' is Some(id) (so r' = r when r carried
\* Some(id) already).
C5_RoundTrip ==
    (result.op = "save" /\ result.ret.ok) =>
        LET found == find_by_id(result.ret.val, CLIENT, DB, FALSE)
            r == result.args.self
        IN /\ found.ret.ok
           /\ found.ret.val = Some([r EXCEPT !._id = Some(result.ret.val)])
           /\ is_some(r._id) => found.ret.val = Some(r)

C5_Witness ==
    /\ result.op = "save"
    /\ result.ret.ok
    /\ is_none(result.args.self._id)
    /\ Len(collection) = 2
    /\ find_by_id(result.ret.val, CLIENT, DB, FALSE).ret.val # Some(result.args.self)

\* C6 (as claimed): a record's identifier is None before its first save and,
\* after save(r) succeeds returning id, the identifier field of r is Some(id).
C6_Original ==
    (result.op = "save" /\ result.ret.ok) =>
        result.args.self_after._id = Some(result.ret.val)

\* C6 (amended): save(r) never changes r.  After save(r) succeeds returning id,
\* the identifier field of r is what it was before the call: None if the caller
\* never assigned it, Some(id) if the caller had assigned id; the Some(id) is
\* carried by the inserted document.
C6_SaveLeavesRecord ==
    result.op = "save" =>
        /\ result.args.self_after = result.args.self
        /\ result.ret.ok =>
              /\ result.args.self_after._id \in {None, Some(result.ret.val)}
              /\ collection[Len(collection)]["_id"] = Bson_ObjectId(result.ret.val)

C6_Witness ==
    /\ result.op = "save"
    /\ result.ret.ok
    /\ is_none(result.args.self_after._id)
    /\ collection[Len(collection)]["_id"] = Bson_ObjectId(result.ret.val)

\* C8: a save of a valid record inserts a document exactly when it returns Ok.
\* When it does, the collection is the one before the call with one document
\* appended, the serialized record; if the record's identifier is Some(id) that
\* document has _id = id and save returns exactly id; if it is None, save
\* returns the _id of that one document, which no other document of the
\* collection has.
C8_SaveIdentifier ==
    (result.op = "save" /\ validate(User, result.args.self).ok) =>
        LET r == result.args.self
            before == result.before.collection
            id == result.ret.val
            last == collection[Len(collection)]
        IN IF result.ret.ok
           THEN /\ Len(collection) = Len(before) + 1
                /\ SubSeq(collection, 1, Len(before)) = before
                /\ last = to_document([r EXCEPT !._id = Some(id)]).val
                /\ is_some(r._id) => id = unwrap(r._id)
                /\ \A i \in 1..Len(before) : before[i]["_id"] # Bson_ObjectId(id)
           ELSE collection = before

C8_Witness ==
    /\ result.op = "save"
    /\ result.ret.ok
    /\ Len(collection) = 2
    /\ is_some(result.args.self._id)
    /\ result.ret.val = unwrap(result.args.self._id)
    /\ \E i \in 1..Len(result.before.collection) :
          result.before.collection[i]["_id"] = Bson_ObjectId(unwrap(result.args.self._id) + 1)

\* C7 (as claimed): across any sequence of builder setter calls (the identifier
\* setter called more than once included) and save calls on a record, once its
\* identifier is Some(id) it never takes a different value.
C7_Original == [][is_some(rec._id) => rec'._id = rec._id]_vars

\* C7 (amended): save calls and the setters of the other fields never change a
\* record's identifier; the identifier setter assigns its argument every time it
\* is called, replacing an identifier assigned before.
C7_IdentifierStable ==
    [][IF result'.op = "id"
       THEN rec'._id = Some(result'.args.id)
       ELSE rec'._id = rec._id]_vars

C7_Witness ==
    /\ result.op = "id"
    /\ is_some(result.args.self._id)
    /\ rec._id # result.args.self._id
    /\ \E i \in 1..Len(collection) : collection[i]["_id"] = Bson_ObjectId(unwrap(result.args.self._id))

\* The positions of the Required checks of vin.schema whose field is absent in vin.self.
AbsentRequired ==
    LET checks == validations(vin.schema.validate_definitions)
    IN {i \in 1..Len(checks) : checks[i].rule = "required" /\ is_none(vin.self[checks[i].field])}

\* C9 (as claimed): for every record in which a field carrying the Required rule
\* is absent, validate fails with an error naming that field, whatever the values
\* of the record's other fields.
C9_Original ==
    is_some(vout) =>
        LET checks == validations(vin.schema.validate_definitions)
            out == unwrap(vout)
        IN \A i \in AbsentRequired :
              ~out.ok /\ out.err.kind = "ValidationError" /\ out.err.field = checks[i].field

\* C9 (amended): for every record in which a field carrying the Required rule is
\* absent, validate fails with a ValidationError.  The error names that field
\* ("is required") when every check generated before that Required check (the
\* checks of the fields declared earlier) passes; otherwise it is the error of the
\* first failing check, which names an earlier field.
C9_RequiredAbsent ==
    is_some(vout) =>
        LET checks == validations(vin.schema.validate_definitions)
            out == unwrap(vout)
            failing == {j \in 1..Len(checks) : ~run_check(vin.self, checks[j]).ok}
        IN \A i \in AbsentRequired :
              /\ ~out.ok
              /\ out.err.kind = "ValidationError"
              /\ \E j \in failing :
                    /\ \A k \in failing : j <= k
                    /\ j <= i
                    /\ out = run_check(vin.self, checks[j])
                    /\ j = i => out.err.field = checks[i].field /\ out.err.text = "is required"
                    /\ j < i => out.err.field # checks[i].field

C9_Witness ==
    /\ is_some(vout)
    /\ vin.kind = "user"
    /\ vin.self.name = Str_Valid
    /\ is_none(vin.self.email)
    /\ is_none(vin.self.role)
    /\ ~unwrap(vout).ok
    /\ unwrap(vout).err.field = "email"

\* C10: for a string field with MinLength(n) and MaxLength(m), n <= m, and every
\* string s, strings with multi-byte characters included: validate fails citing n
\* if the character length of s is less than n, fails citing m if it is greater
\* than m, and passes when n <= character length of s <= m.
C10_CharacterLength ==
    (is_some(vout) /\ vin.kind = "length") =>
        LET n == unwrap(vin.schema.validate_definitions[1].args.min_length)
            m == unwrap(vin.schema.validate_definitions[1].args.max_length)
            chars == char_len(vin.self.name)
            out == unwrap(vout)
        IN n <= m =>
              /\ chars < n => ~out.ok /\ out.err.cites = Some(n)
              /\ chars > m => ~out.ok /\ out.err.cites = Some(m)
              /\ (n <= chars /\ chars <= m) => out.ok

\* v has exactly one '@', something before it, and after it something holding a '.'.
EmailShape(v) ==
    LET ats == {i \in 1..Len(v) : v[i] = "@"}
    IN /\ Cardinality(ats) = 1
       /\ \A i \in ats : /\ i > 1
                          /\ i < Len(v)
                          /\ \E j \in (i + 1)..Len(v) : v[j] = "."

\* C11: for every present string value v of a field with the Email rule, the
\* rule passes if and only if v contains exactly one '@', the parts before and
\* after it are both non-empty, and the part after it contains at least one '.';
\* an absent value passes.  A failure is a ValidationError naming the field.
C11_EmailRule ==
    (is_some(vout) /\ vin.kind = "email") =>
        LET v == vin.self.value
            out == unwrap(vout)
        IN /\ out.ok <=> (is_none(v) \/ EmailShape(unwrap(v)))
           /\ ~out.ok => /\ out.err.kind = "ValidationError"
                         /\ out.err.field = "value"
                         /\ out.err.text = "must be a valid email address"

C11_Witness ==
    /\ is_some(vout)
    /\ vin.kind = "email"
    /\ vin.self.value = Some(<<"a", "@", "@", ".">>)
    /\ ~unwrap(vout).ok

\* C12: for every integer value x of a numeric field, Positive passes iff x > 0,
\* Negative passes iff x < 0 and NonNegative passes iff x >= 0; so 0 fails
\* Positive and Negative and passes NonNegative.  A failure is a ValidationError
\* naming the field and the rule.
C12_SignRules ==
    (is_some(vout) /\ vin.kind \in {"positive", "negative", "non_negative"}) =>
        LET x == vin.self.value
            out == unwrap(vout)
        IN /\ vin.kind = "positive" => (out.ok <=> x > 0)
           /\ vin.kind = "negative" => (out.ok <=> x < 0)
           /\ vin.kind = "non_negative" => (out.ok <=> x >= 0)
           /\ ~out.ok =>
                 /\ out.err.kind = "ValidationError"
                 /\ out.err.field = "value"
                 /\ out.err.text = CASE vin.kind = "positive" -> "must be positive"
                                      [] vin.kind = "negative" -> "must be negative"
                                      [] vin.kind = "non_negative" -> "must be non-negative"

C12_Witness ==
    /\ is_some(vout)
    /\ vin.kind = "positive"
    /\ vin.self.value = 0
    /\ ~unwrap(vout).ok
    /\ unwrap(vout).err.text = "must be positive"

\* C13: Min(n) and Max(n) are inclusive bounds on the field's numeric value for
\* every integer field type, unsigned values above the largest signed one
\* included: Min(n) fails iff value < n, Max(n) fails iff value > n, so
\* value = n passes both, and the failure message cites n.
C13_MinMaxInclusive ==
    (is_some(vout) /\ vin.kind \in {"min", "max"}) =>
        LET x == vin.self.value
            args == vin.schema.validate_definitions[1].args
            out == unwrap(vout)
        IN /\ vin.kind = "min" => (~out.ok <=> x < unwrap(args.min))
           /\ vin.kind = "max" => (~out.ok <=> x > unwrap(args.max))
           /\ ~out.ok => out.err.cites = (IF vin.kind = "min" THEN args.min ELSE args.max)

\* C14: for every optional string field with the NonEmpty rule, validate fails
\* if the value is absent, fails if the value is present but empty or made of
\* whitespace only, and passes for every present value with at least one
\* non-whitespace character.
C14_NonEmptyRule ==
    (is_some(vout) /\ vin.kind = "non_empty") =>
        LET v == vin.self.value
            out == unwrap(vout)
            visible == {i \in 1..Len(unwrap(v)) : unwrap(v)[i] \notin {" ", "\t", "\n"}}
        IN /\ is_none(v) =>
                 ~out.ok /\ out.err.text = "is missing but marked as non-empty"
           /\ (is_some(v) /\ visible = {}) =>
                 ~out.ok /\ out.err.text = "must be non-empty"
           /\ (is_some(v) /\ visible # {}) => out.ok
           /\ ~out.ok => out.err.kind = "ValidationError" /\ out.err.field = "value"

C14_Witness ==
    /\ is_some(vout)
    /\ vin.kind = "non_empty"
    /\ vin.self.value = Some(<<" ", "\t">>)
    /\ ~unwrap(vout).ok
    /\ unwrap(vout).err.text = "must be non-empty"

\* The positions of the documents of coll that filter selects, and whether an
\* update document changes a document, both read off the documents directly.
Selected(coll, filter) ==
    {i \in 1..Len(coll) :
        \A k \in DOMAIN filter : k \in DOMAIN coll[i] /\ coll[i][k] = filter[k]}

Changes(upd, document) ==
    \E k \in DOMAIN upd["$set"] : k \notin DOMAIN document \/ document[k] # upd["$set"][k]

\* C15: when M >= 1 documents match the filter and the update changes each of
\* them, a successful update_one reports matched_count = 1 and modified_count
\* = 1 and changes exactly one matching document; a successful update reports
\* matched_count = M and modified_count = M and changes all M; neither
\* changes a document that does not match, and neither adds or removes one.
C15_UpdateCounts ==
    (result.op \in {"update_one", "update"} /\ result.ret.ok) =>
        LET old == result.before.collection
            sel == Selected(old, result.args.filter)
            M == Cardinality(sel)
            touched == {i \in 1..Len(old) : collection[i] # old[i]}
        IN (M >= 1 /\ \A i \in sel : Changes(result.args.update, old[i])) =>
              /\ Len(collection) = Len(old)
              /\ touched \subseteq sel
              /\ result.op = "update_one" =>
                    /\ result.ret.val.matched_count = 1
                    /\ result.ret.val.modified_count = 1
                    /\ Cardinality(touched) = 1
              /\ result.op = "update" =>
                    /\ result.ret.val.matched_count = M
                    /\ result.ret.val.modified_count = M
                    /\ touched = sel
              /\ \A i \in touched :
                    \A k \in DOMAIN collection[i] :
                       collection[i][k] = IF k \in DOMAIN result.args.update["$set"]
                                          THEN result.args.update["$set"][k]
                                          ELSE old[i][k]

C15_Witness ==
    /\ result.op = "update_one"
    /\ result.ret.ok
    /\ Cardinality(Selected(result.before.collection, result.args.filter)) = 2
    /\ \A i \in 1..2 : Changes(result.args.update, result.before.collection[i])
    /\ result.ret.val.modified_count = 1
    /\ collection[2] = result.before.collection[2]
    /\ collection[1] # result.before.collection[1]

\* The documents an update operation addresses: every match of the filter for
\* update, the first match for update_one, the document with the identifier
\* for update_by_id.
Addressed(op, args, coll) ==
    LET sel == Selected(coll, IF op = "update_by_id" THEN doc_id(args.id) ELSE args.filter)
    IN IF op = "update" THEN sel
       ELSE {i \in sel : \A j \in sel : i <= j}

\* C16: update, update_one and update_by_id perform no validation.  None of
\* them ever returns a ValidationError; a successful one has written the $set
\* into every document it addresses, whether or not the document then breaks
\* a rule of the record type; and a ValidationError comes from save alone.
C16_UpdatesDoNotValidate ==
    /\ (~result.ret.ok /\ result.ret.err.kind = "ValidationError") => result.op = "save"
    /\ (result.op \in {"update", "update_one", "update_by_id"} /\ result.ret.ok) =>
          LET old == result.before.collection
              hit == Addressed(result.op, result.args, old)
          IN /\ Len(collection) = Len(old)
             /\ result.ret.val.matched_count = Cardinality(hit)
             /\ \A i \in 1..Len(old) :
                   collection[i] = IF i \in hit
                                   THEN apply_update(old[i], result.args.update)
                                   ELSE old[i]

C16_Witness ==
    /\ result.op = "update"
    /\ result.ret.ok
    /\ result.ret.val.modified_count = 2
    /\ \A i \in 1..2 :
          /\ DocumentValid(result.before.collection[i])
          /\ ~DocumentValid(collection[i])

\* The positions of the documents of coll whose _id is id.
WithId(coll, id) ==
    {i \in 1..Len(coll) : "_id" \in DOMAIN coll[i] /\ coll[i]["_id"] = Bson_ObjectId(id)}

\* C17: a successful delete_by_id(id) returns deleted_count = 1 if a document
\* with that identifier was stored and 0 otherwise, removes that document and
\* no other, and leaves a store in which find_by_id(id) returns None; and an
\* identifier that is not in the collection comes back only by a successful
\* save that returns it, so find_by_id(id) keeps returning None until then.
C17_DeleteThenFind ==
    /\ (result.op = "delete_by_id" /\ result.ret.ok) =>
          LET old == result.before.collection
              gone == WithId(old, result.args.id)
          IN /\ result.ret.val.deleted_count = Cardinality(gone)
             /\ Cardinality(gone) \in {0, 1}
             /\ collection = select(old, (1..Len(old)) \ gone, 1)
             /\ find_by_id(result.args.id, CLIENT, DB, FALSE).ret = Ok(None)
    /\ \A id \in Oids :
          /\ WithId(collection, id) = {} /\ is_some(CLIENT) =>
                find_by_id(id, CLIENT, DB, FALSE).ret = Ok(None)
          /\ (WithId(result.before.collection, id) = {} /\ WithId(collection, id) # {}) =>
                result.op = "save" /\ result.ret = Ok(id)

C17_Witness ==
    /\ result.op = "delete_by_id"
    /\ result.ret.ok
    /\ result.ret.val.deleted_count = 1
    /\ Len(result.before.collection) = 2
    /\ Len(collection) = 1
    /\ WithId(result.before.collection, result.args.id) = {1}
    /\ collection[1] = result.before.collection[2]

\* C18: a successful clear() on a collection of K documents returns
\* deleted_count = K and leaves the collection empty, K = 0 included; its
\* result and the store it leaves are those of delete with the empty filter on
\* the same store; and count of the empty filter right after it returns 0.
C18_Clear ==
    result.op = "clear" =>
        LET old == [DB EXCEPT !.collection = result.before.collection,
                              !.indexes = result.before.indexes]
        IN /\ result.ret.ok =>
                 /\ result.ret.val.deleted_count = Len(result.before.collection)
                 /\ collection = <<>>
                 /\ count(doc_empty, CLIENT, DB, FALSE).ret = Ok(0)
           /\ LET d == delete(doc_empty, CLIENT, old, result.args.fault)
              IN /\ d.ret = result.ret
                 /\ d.db = DB
                 /\ d.log = result.log

C18_Witness ==
    /\ result.op = "clear"
    /\ result.ret.ok
    /\ Len(result.before.collection) = 2
    /\ result.ret.val.deleted_count = 2
    /\ collection = <<>>

\* The store an operation found, rebuilt from the record of the last step
\* (the operations compared below leave the ObjectId counter alone).
StoreBefore ==
    [DB EXCEPT !.collection = result.before.collection, !.indexes = result.before.indexes]

\* C19: for every identifier, update document and store, find_by_id(id),
\* update_by_id(id, u) and delete_by_id(id) return what find_one({_id: id}),
\* update_one({_id: id}, u) and delete_one({_id: id}) return on the same
\* store (the same value or the same error kind), issue the same command and
\* leave the same store.
C19_ByIdEquivalence ==
    LET same(o) == /\ o.ret = result.ret
                   /\ o.db = DB
                   /\ o.log = result.log
        id == doc_id(result.args.id)
    IN /\ result.op = "find_by_id" =>
             same(find_one(id, CLIENT, StoreBefore, result.args.fault))
       /\ result.op = "update_by_id" =>
             same(update_one(id, result.args.update, CLIENT, StoreBefore, result.args.fault))
       /\ result.op = "delete_by_id" =>
             same(delete_one(id, CLIENT, StoreBefore, result.args.fault))

C19_Witness ==
    /\ result.op = "update_by_id"
    /\ result.ret.ok
    /\ result.ret.val.modified_count = 1
    /\ Len(collection) = 2
    /\ WithId(collection, result.args.id) = {2}
    /\ collection[1] = result.before.collection[1]
    /\ collection[2] # result.before.collection[2]

\* C20: in every reachable state of the collection, documents changed by
\* update included, exists(filter) leaves the collection as it is and, whenever
\* count(filter) on the same store returns a number, returns true if that
\* number is positive and false if it is zero.
C20_ExistsIffCount ==
    result.op = "exists" =>
        LET n == count(result.args.filter, CLIENT, DB, result.args.fault)
        IN /\ collection = result.before.collection
           /\ n.ret.ok =>
                 /\ n.ret.val = Cardinality(Selected(collection, result.args.filter))
                 /\ result.ret = Ok(n.ret.val > 0)

\* C21: a find that returns records returns one record per document matching
\* the filter, each once, in the order the documents have in the collection
\* (the k-th record is the k-th matching document, deserialized); their number
\* is what count(filter) returns on the same store; a count that returns a
\* number returns the number of matching documents; and neither find nor
\* count changes the collection.
C21_FindMatchesInOrder ==
    /\ result.op \in {"find", "count"} => collection = result.before.collection
    /\ (result.op = "count" /\ result.ret.ok) =>
          result.ret.val = Cardinality(Selected(collection, result.args.filter))
    /\ (result.op = "find" /\ result.ret.ok) =>
          LET sel == Selected(collection, result.args.filter)
              found == result.ret.val
          IN /\ Len(found) = Cardinality(sel)
             /\ count(result.args.filter, CLIENT, DB, FALSE).ret = Ok(Len(found))
             /\ \A i \in sel :
                   LET k == Cardinality({j \in sel : j <= i})
                   IN Ok(found[k]) = from_document(collection[i])

C21_Witness ==
    /\ result.op = "find"
    /\ result.ret.ok
    /\ Len(collection) = 2
    /\ result.args.filter = doc_empty
    /\ Len(result.ret.val) = 2
    /\ result.ret.val[1].name # result.ret.val[2].name
    /\ Ok(result.ret.val[1]) = from_document(collection[1])

\* The indexes the record type declares, as the store keeps them.
DeclaredIndexes ==
    {index_model(User.index_definitions[i]) : i \in 1..Len(User.index_definitions)}

\* C22: index provisioning is idempotent.  After every successful save, the
\* first and every later one, the collection's indexes are the declared ones,
\* one per declaration; and in every reachable store that already has them, a
\* save of a valid new record that meets no driver fault returns Ok and leaves
\* the index set as it is.
C22_IndexesIdempotent ==
    /\ (result.op = "save" /\ result.ret.ok) =>
          /\ indexes = DeclaredIndexes
          /\ Cardinality(indexes) = Len(User.index_definitions)
    /\ indexes \subseteq DeclaredIndexes
    /\ (indexes # {} /\ is_some(CLIENT)) =>
          \A payload \in Payloads :
             validate(User, payload).ok =>
                LET again == save(User, payload, CLIENT, DB, "none")
                IN /\ again.ret.ok
                   /\ again.db.indexes = indexes
                   /\ again.log = <<"create_indexes", "insert_one">>

C22_Witness ==
    /\ result.op = "save"
    /\ result.ret.ok
    /\ result.before.indexes = DeclaredIndexes
    /\ Len(result.before.collection) = 1
    /\ Len(collection) = 2
    /\ indexes = result.before.indexes
    /\ result.log = <<"create_indexes", "insert_one">>

\* The store after the tasks' saves run one after the other, task k first.
RECURSIVE SavedInTurn(_, _)
SavedInTurn(k, db) ==
    IF k > NumSavers THEN db
    ELSE SavedInTurn(k + 1, save(User, local[k].self, CLIENT, db, "none").db)

\* C23: however the concurrent first saves interleave, once all have returned
\* every save of a valid record has returned Ok with the identifier of a
\* stored document that is the record's serialization, no two saves returned
\* the same identifier, and the collection's index set is the one the saves
\* produce when run one after the other; no save meets an IndexError.
C23_ConcurrentFirstSaves ==
    /\ \A t \in Savers :
          (is_some(local[t].ret) /\ ~unwrap(local[t].ret).ok) =>
              unwrap(local[t].ret).err.kind = "ValidationError"
    /\ (\A t \in Savers : pc[t] = "done") =>
          /\ indexes = SavedInTurn(1, SaversStore).indexes
          /\ Len(collection) = Len(SavedInTurn(1, SaversStore).collection)
          /\ \A t \in Savers :
                validate(User, local[t].self).ok =>
                   LET ret == unwrap(local[t].ret)
                   IN /\ ret.ok
                      /\ \E i \in 1..Len(collection) :
                            collection[i] =
                               to_document([local[t].self EXCEPT !._id = Some(ret.val)]).val
                      /\ \A u \in Savers \ {t} : unwrap(local[u].ret) # ret

C23_Witness ==
    /\ \A t \in Savers : pc[t] = "done" /\ unwrap(local[t].ret).ok
    /\ local[1].log = <<"create_indexes", "insert_one">>
    /\ Len(collection) = NumSavers
    /\ collection[1] = to_document([local[2].self EXCEPT
                                       !._id = Some(unwrap(local[2].ret).val)]).val
    /\ indexes = DeclaredIndexes

\* C24: for every record type, the record new() returns and the record
\* default() returns are equal on every field; in both the identifier is
\* None and a field with a declared default holds that default.
C24_NewEqualsDefault ==
    (pc = "built" /\ \A ident \in field_idents(local.T) : is_none(local.last[ident])) =>
        /\ rec = new(local.T)
        /\ rec = default(local.T)
        /\ \A ident \in field_idents(local.T) : new(local.T)[ident] = default(local.T)[ident]
        /\ rec._id = None
        /\ local.T = "Record" => rec.user = Str_Guest /\ rec.retries = 1

C24_Witness ==
    /\ pc = "built"
    /\ local.T = "Record"
    /\ local.ctor = "new"
    /\ \A ident \in field_idents(local.T) : is_none(local.last[ident])
    /\ rec.retries = 1

\* The value the claim gives a field of a built record: the last value passed
\* to its setter, in Some for an optional field; with no setter call its
\* declared default; with no declared default the zero value of its type.
SetOrDefault(T, last, ident) ==
    LET field == field_of(T, ident)
        optional == field.ty.segments[1].ident = "Option"
    IN IF is_some(last[ident])
       THEN (IF optional THEN Some(unwrap(last[ident])) ELSE unwrap(last[ident]))
       ELSE IF is_some(field.default_expr) THEN unwrap(field.default_expr)
       ELSE CASE field.ty.segments[1].ident = "String" -> <<>>
              [] field.ty.segments[1].ident = "i32" -> 0
              [] field.ty.segments[1].ident = "bool" -> FALSE
              [] OTHER -> None

\* C25: after any sequence of setter calls on new() or default(), every field
\* of the record holds the last value passed to its setter (in Some for an
\* optional field), or its declared default if its setter was never called,
\* or the zero value of its type if it has no declared default; and setter
\* calls for two different fields give the same record in either order.
C25_SettersLastValue ==
    pc = "built" =>
        /\ DOMAIN rec = field_idents(local.T)
        /\ \A ident \in field_idents(local.T) :
              rec[ident] = SetOrDefault(local.T, local.last, ident)
        /\ \A f, g \in field_idents(local.T) \ {"_id"} :
              f # g =>
                 \A a \in SetterValues(f), b \in SetterValues(g) :
                    setter(field_of(local.T, g), setter(field_of(local.T, f), rec, a), b)
                       = setter(field_of(local.T, f), setter(field_of(local.T, g), rec, b), a)

C25_Witness ==
    /\ pc = "built"
    /\ local.T = "Member"
    /\ local.last.email = Some(Str_email)
    /\ local.last.name = Some(Str_Valid)
    /\ is_none(local.last.role)
    /\ rec.email = Some(Str_email)
    /\ rec.name = Str_Valid
    /\ rec.role = None

\* The checks of one attribute of a field, in the order its rules were written.
AsWritten(attr, field) ==
    [i \in 1..Len(attr) |->
        [rule |-> attr[i].key, field |-> field,
         arg |-> attr[i].value]]

\* The order in which the generator emits the checks of one attribute.
RuleOrder ==
    << "min_length", "max_length", "required", "email", "pattern", "non_empty",
       "positive", "negative", "non_negative", "min", "max" >>

\* The checks of one attribute of a field, in the generator's order.
RECURSIVE AsGenerated(_, _, _)
AsGenerated(attr, field, k) ==
    IF k > Len(RuleOrder) THEN <<>>
    ELSE LET here == {i \in 1..Len(attr) : attr[i].key = RuleOrder[k]}
         IN (IF here = {} THEN <<>>
             ELSE <<AsWritten(attr, field)[CHOOSE i \in here : TRUE]>>)
            \o AsGenerated(attr, field, k + 1)

\* The result of the first check of a list that fails on a record, Ok if none does.
FirstFailure(self, checks) ==
    LET failing == {i \in 1..Len(checks) : ~run_check(self, checks[i]).ok}
    IN IF failing = {} THEN Ok("unit")
       ELSE run_check(self, checks[CHOOSE i \in failing : \A j \in failing : i <= j])

\* C26 (as claimed): validate returns the error of the first failing rule,
\* fields taken in declaration order and the rules of a field in the order
\* they were written (a field with max written before min whose value breaks
\* both reports the max failure).
C26_Original ==
    (is_some(vout) /\ vin.kind = "order") =>
        unwrap(vout) = FirstFailure(vin.self, AsWritten(vin.attrs.a, "a")
                                              \o AsWritten(vin.attrs.b, "b"))

\* C26 (amended): validate returns the error of the first failing rule, fields
\* taken in declaration order and the rules of one attribute in the fixed
\* order min_length, max_length, required, email, pattern, non_empty,
\* positive, negative, non_negative, min, max, whatever order they were
\* written in; it returns Ok exactly when no rule fails.
C26_GeneratedOrder ==
    (is_some(vout) /\ vin.kind = "order") =>
        unwrap(vout) = FirstFailure(vin.self, AsGenerated(vin.attrs.a, "a", 1)
                                              \o AsGenerated(vin.attrs.b, "b", 1))

C26_Witness ==
    /\ is_some(vout)
    /\ vin.kind = "order"
    /\ vin.attrs.a[1].key = "max"
    /\ vin.attrs.a[2].key = "min"
    /\ vin.self.a = 1
    /\ vin.self.b = 1
    /\ unwrap(vout) = Err(ValidationError("a", "must be at least N", Some(2)))

\* The regex of the input is the unclosed group, which does not compile.
PatternInvalid == unwrap(vin.schema.validate_definitions[1].args.pattern)[1] = "("

\* C27 (as claimed): for a pattern rule whose regex is syntactically invalid,
\* validate returns a ValidationError for every record, the field's value
\* present or absent.
C27_Original ==
    (is_some(vout) /\ vin.kind = "pattern" /\ PatternInvalid) =>
        /\ ~unwrap(vout).ok
        /\ unwrap(vout).err.kind = "ValidationError"

\* C27 (amended): a record whose field is absent passes the pattern rule,
\* whatever the regex; for a present value, a syntactically invalid regex
\* gives the ValidationError "Invalid regex pattern in validation", and a
\* valid regex gives the ValidationError "does not match the required
\* pattern" exactly when it does not match the value.
C27_PatternRule ==
    (is_some(vout) /\ vin.kind = "pattern") =>
        LET v == vin.self.value
            out == unwrap(vout)
            fits == /\ Len(unwrap(v)) = 2
                    /\ unwrap(v)[1] = "S"
                    /\ unwrap(v)[2] \in {"0", "1", "2", "3", "4", "5", "6", "7", "8", "9"}
        IN /\ is_none(v) => out.ok
           /\ (is_some(v) /\ PatternInvalid) =>
                 out = Err(ValidationError("value", "Invalid regex pattern in validation", None))
           /\ (is_some(v) /\ ~PatternInvalid) =>
                 /\ out.ok <=> fits
                 /\ ~out.ok =>
                       out = Err(ValidationError("value", "does not match the required pattern", None))

C27_Witness ==
    /\ is_some(vout)
    /\ vin.kind = "pattern"
    /\ PatternInvalid
    /\ vin.self.value = Some(<<"S", "1">>)
    /\ ~unwrap(vout).ok
    /\ unwrap(vout).err.text = "Invalid regex pattern in validation"

\* C28: in every save, insert_one is issued only after create_indexes has
\* returned success in that save, so that the declared indexes exist when the
\* document is written; a save whose create_indexes fails returns IndexError,
\* has issued create_indexes once and nothing else, and leaves documents and
\* indexes as they were; and IndexError is returned in no other case.
C28_IndexesBeforeInsert ==
    result.op = "save" =>
        /\ result.log \in {<<>>, <<"create_indexes">>, <<"create_indexes", "insert_one">>}
        /\ result.log = <<"create_indexes", "insert_one">> => indexes = DeclaredIndexes
        /\ result.log = <<"create_indexes">> =>
              /\ ~result.ret.ok
              /\ result.ret.err.kind = "IndexError"
              /\ collection = result.before.collection
              /\ indexes = result.before.indexes
        /\ (~result.ret.ok /\ result.ret.err.kind = "IndexError") =>
              result.log = <<"create_indexes">>

C28_Witness ==
    /\ result.op = "save"
    /\ ~result.ret.ok
    /\ result.ret.err.kind = "IndexError"
    /\ result.log = <<"create_indexes">>
    /\ Len(result.before.collection) = 1
    /\ collection = result.before.collection
    /\ indexes = result.before.indexes

\* C29 (as claimed): every successful call of a model operation, save
\* included, has issued exactly one command to the store.
C29_Original ==
    (result.op \in ModelOps /\ result.ret.ok) => Len(result.log) = 1

\* C29 (amended): every successful call of an operation other than save has
\* issued exactly one command.  A successful save of a record type that
\* declares indexes has issued two, create_indexes and then insert_one, the
\* first save and every later one alike; a save of a record type that
\* declares none issues insert_one only.
C29_CommandsPerCall ==
    /\ (result.op \in ModelOps \ {"save"} /\ result.ret.ok) => Len(result.log) = 1
    /\ (result.op = "save" /\ result.ret.ok) =>
          result.log = <<"create_indexes", "insert_one">>
    /\ is_some(CLIENT) =>
          \A payload \in Payloads :
             LET plain == save(UserNoIndex, payload, CLIENT, DB, "none")
             IN plain.ret.ok => plain.log = <<"insert_one">>

C29_Witness ==
    /\ result.op = "save"
    /\ result.ret.ok
    /\ Len(result.before.collection) = 1
    /\ result.before.indexes = DeclaredIndexes
    /\ Len(result.log) = 2
    /\ save(UserNoIndex, result.args.self, CLIENT, DB, "none").ret.ok

\* C30: whenever save returns an error of any kind, the inserted_id that is
\* not an ObjectId included, that call has added no document: the collection
\* after the call is the collection before it.
C30_FailedSaveAddsNothing ==
    (result.op = "save" /\ ~result.ret.ok) => collection = result.before.collection

====
